---------------------------- MODULE Spec2Model ----------------------------
(***************************************************************************)
(* PC-BASIC: the keyboard ring buffer (pcbasic/basic/inputs/keyboard.py),  *)
(* the variable and simulated-memory model (var.py) and the statement      *)
(* dispatcher (pcbasic/basic/statements.py).                               *)
(*                                                                         *)
(* Bytes are numbers 0..255, byte strings are sequences of bytes, and      *)
(* Python's None is written None (-1).                                     *)
(***************************************************************************)
EXTENDS Integers, Sequences, FiniteSets, TLC

VARIABLES
    \* ---- KeyboardBuffer / Keyboard (keyboard.py)
    buffer,            \* KeyboardBuffer._buffer: list of (cp_c, scancode, modifier)
    start,             \* KeyboardBuffer._start
    expansion_vessel,  \* KeyboardBuffer._expansion_vessel: list of one-byte strings
    key_replace,       \* KeyboardBuffer.key_replace: the 12 macros
    audio,             \* number of tone events put on queues.audio
    kop,               \* the last keyboard operation and its arguments
    kret,              \* what the last getc returned
    ring_pokes,        \* number of ring_write, ring_set_boundaries and set_macro calls made
    typed,             \* the keystrokes appended so far, in order (AppendReadSpec)
    readlog,           \* the results of the getc calls so far, in order (AppendReadSpec)
    \* ---- variables and simulated memory (var.py)
    variables,         \* completed name -> stored value, as <<type of the value, bytes>>
    var_memory,        \* completed name -> <<name_ptr, var_ptr, str_ptr>>
    var_current,
    string_current,
    arrays,            \* completed name -> <<dimensions, lst>>
    array_memory,      \* completed name -> <<name_ptr, array_ptr>>
    array_current,
    array_base,
    mop,               \* the last memory operation and its arguments
    merr,              \* the error number the last scalar operation raised, 0 if none
    mret,              \* what the last memory operation returned
    erases,            \* number of erase_array calls made
    shadow             \* <<array name, index tuple>> -> the value last stored there

\* ---- statement dispatcher
VARIABLES
    code,              \* the tokenised statement the reader ins is on, a sequence of tokens
    pos,               \* number of tokens of code the reader is past
    routine,           \* the key of self.statements whose routine was invoked, "" if none
    trace,             \* the callbacks invoked, and "RunError" where one was raised, in order
    serr,              \* the error number parse_statement raised, 0 if none
    parsed,            \* whether parse_statement has been called
    redo_on_break,     \* session.redo_on_break, as parse_expression and _parse_variable set it
    xpc                \* where the call of parse_expression or _parse_variable is

\* ---- Keyboard: modifiers, ALT-keypad register, input stream, wait_char
VARIABLES
    mod,               \* Keyboard.mod: the modifier and toggle bits
    keypad_ascii,      \* Keyboard.keypad_ascii: the digits typed with ALT held
    last_scancode,     \* Keyboard.last_scancode
    stream_buffer,     \* Keyboard._stream_buffer: the bytes of the redirected stream
    input_closed,      \* Keyboard._input_closed
    wpc,               \* where the caller of wait_char is: "idle", "test", "wait", "done"
    wko,               \* the keyboard_only argument of the wait_char call
    polls,             \* number of queues.wait() calls the wait_char call has made
    wret,              \* what the last wait_char or get_fullchar returned
    macros_set,        \* macro number -> the macro last passed to set_macro for it
    due,               \* the macro bytes the getc calls to come are to return, in order
    ignore_caps,       \* Keyboard._ignore_caps
    events             \* number of key events check_input has handled

kbdvars == <<buffer, start, expansion_vessel, key_replace, audio, kop, kret,
             ring_pokes, typed, readlog>>

memvars == <<variables, var_memory, var_current, string_current, arrays, array_memory,
             array_current, array_base, mop, merr, mret, erases, shadow>>

stmtvars == <<code, pos, routine, trace, serr, parsed, redo_on_break, xpc>>

keyvars == <<mod, keypad_ascii, last_scancode, stream_buffer, input_closed,
             wpc, wko, polls, wret, macros_set, due, ignore_caps, events>>

vars == <<kbdvars, keyvars, memvars, stmtvars>>

None == -1
\* an IndexError or KeyError raised instead of a byte being returned
IndexError == -2
KeyError == -3
\* no name
NoName == <<>>

Min(a, b) == IF a < b THEN a ELSE b
Max(a, b) == IF a > b THEN a ELSE b

\* Python's lst[i:] and lst[:j] for 0 <= i, 0 <= j
SliceFrom(s, i) == IF i >= Len(s) THEN <<>> ELSE SubSeq(s, i + 1, Len(s))
SliceTo(s, j) == SubSeq(s, 1, Min(j, Len(s)))

\* [x] * n for any integer n (empty when n <= 0)
Repeat(x, n) == [i \in 1..n |-> x]

(***************************************************************************)
(* Keyboard buffer                                                         *)
(***************************************************************************)

\* KeyboardBuffer(queues, 15)
ring_length == 15

\* ---- bounds of the keyboard model
MaxKeystring == 16     \* longest pre-inserted keystring
MaxBuffer == 16        \* longest _buffer the model follows
MaxTones == 1          \* most tone events the model counts
MaxFnKeys == 1         \* most function keys leading a keystring
MaxRingPokes == 1      \* most ring_write and ring_set_boundaries calls the model follows
MaxEmptyReads == 2     \* most getc calls of AppendReadSpec after the ring has run empty
MaxTyped == 17         \* most appends of AppendReadSpec
MaxMarked == 2         \* most keystrokes of AppendReadSpec other than the plain key

\* eascii codes and key bytes
KeyA == <<97>>
KeyB == <<98>>
KeyW == <<119>>
EaF1 == <<0, 59>>
NulNul == <<0, 0>>
ScanA == 30
ScanF1 == 59
ScanW == 17

\* FUNCTION_KEY: eascii code -> macro number (F1..F10 are \0 59..68, F11, F12 \0 133, 134)
FUNCTION_KEY(c) ==
    IF Len(c) = 2 /\ c[1] = 0 /\ c[2] \in 59..68 THEN c[2] - 59
    ELSE IF Len(c) = 2 /\ c[1] = 0 /\ c[2] \in 133..134 THEN c[2] - 123
    ELSE None

\* KeyboardBuffer._default_macros
default_macros ==
    << <<76, 73, 83, 84, 32>>,                      \* LIST_
       <<82, 85, 78, 13>>,                          \* RUN\r
       <<76, 79, 65, 68, 34>>,                      \* LOAD"
       <<83, 65, 86, 69, 34>>,                      \* SAVE"
       <<67, 79, 78, 84, 13>>,                      \* CONT\r
       <<44, 34, 76, 80, 84, 49, 58, 34, 13>>,      \* ,"LPT1:"\r
       <<84, 82, 79, 78, 13>>,                      \* TRON\r
       <<84, 82, 79, 70, 70, 13>>,                  \* TROFF\r
       <<75, 69, 89, 32>>,                          \* KEY_
       <<83, 67, 82, 69, 69, 78, 32, 48, 44, 48, 44, 48, 13>>,  \* SCREEN 0,0,0\r
       <<>>, <<>> >>

\* list(bytes): one one-byte string per byte
ListOfBytes(s) == [i \in 1..Len(s) |-> <<s[i]>>]

\* append that takes a ring of ring_length keystrokes as not yet full
append_one_more(buf, tones, cp_c, scan, modifier, check_full) ==
    IF cp_c # <<>>
    THEN IF check_full /\ Len(buf) > ring_length
         THEN <<buf, tones + 1>>
         ELSE <<Append(buf, <<cp_c, scan, modifier>>), tones>>
    ELSE <<buf, tones>>

\* append that drops a keystroke from a full ring without a tone
append_silent(buf, tones, cp_c, scan, modifier, check_full) ==
    IF cp_c # <<>> /\ ~(check_full /\ Len(buf) >= ring_length)
    THEN <<Append(buf, <<cp_c, scan, modifier>>), tones>>
    ELSE <<buf, tones>>

\* KeyboardBuffer.append: the new (_buffer, audio)
append(buf, tones, cp_c, scan, modifier, check_full) ==
    IF cp_c # <<>>
    THEN IF check_full /\ Len(buf) >= ring_length
         THEN <<buf, tones + 1>>
         ELSE <<Append(buf, <<cp_c, scan, modifier>>), tones>>
    ELSE <<buf, tones>>

\* getc that reads the ring before the vessel while the ring holds a keystroke
getc_ring_first(buf, st, vessel, macros, expand) ==
    IF buf # <<>> /\ (~expand \/ FUNCTION_KEY(buf[1][1]) = None)
    THEN <<buf[1][1], Tail(buf), (st + 1) % ring_length, vessel>>
    ELSE IF vessel # <<>> THEN <<Head(vessel), buf, st, Tail(vessel)>>
    ELSE IF buf = <<>> THEN <<<<>>, buf, st, vessel>>
    ELSE LET v == ListOfBytes(macros[FUNCTION_KEY(buf[1][1]) + 1])
         IN  IF v # <<>> THEN <<Head(v), Tail(buf), (st + 1) % ring_length, Tail(v)>>
             ELSE <<buf[1][1], Tail(buf), (st + 1) % ring_length, v>>

\* KeyboardBuffer.getc: <<result, _buffer, _start, _expansion_vessel>>
getc(buf, st, vessel, macros, expand) ==
    IF vessel # <<>>
    THEN <<Head(vessel), buf, st, Tail(vessel)>>
    ELSE LET c == IF buf # <<>> THEN buf[1][1] ELSE <<>>
             nbuf == IF buf # <<>> THEN Tail(buf) ELSE buf
             nst == IF c # <<>> THEN (st + 1) % ring_length ELSE st
         IN  IF ~expand \/ FUNCTION_KEY(c) = None
             THEN <<c, nbuf, nst, vessel>>
             ELSE LET v == ListOfBytes(macros[FUNCTION_KEY(c) + 1])
                  IN  IF v # <<>>
                      THEN <<Head(v), nbuf, nst, Tail(v)>>
                      ELSE <<c, nbuf, nst, v>>

\* macro.split(b'\0', 1)[0]
RECURSIVE split_nul(_)
split_nul(macro) ==
    IF macro = <<>> \/ Head(macro) = 0 THEN <<>>
    ELSE <<Head(macro)>> \o split_nul(Tail(macro))

\* set_macro that keeps the NUL and what follows it
set_macro_whole(macros, num, macro) == [macros EXCEPT ![num] = macro]

\* Keyboard.set_macro(num, macro) for num in 1..12: the new key_replace
set_macro(macros, num, macro) == [macros EXCEPT ![num] = split_nul(macro)]

\* KeyboardBuffer.peek
peek(buf) == IF buf # <<>> THEN buf[1][1] ELSE <<>>

\* KeyboardBuffer.empty
empty(buf, vessel) == Len(buf) = 0 /\ Len(vessel) = 0

\* KeyboardBuffer.length
length(buf) == Min(ring_length, Len(buf))

\* KeyboardBuffer.stop
stop(buf, st) == (st + length(buf)) % ring_length

\* KeyboardBuffer._ring_index
_ring_index(st, index) ==
    IF index - st < 0 THEN index - st + ring_length + 1 ELSE index - st

\* KeyboardBuffer.ring_read: (eascii, scancode)
ring_read(buf, st, index) ==
    LET i == _ring_index(st, index)
    IN  IF i = ring_length THEN <<<<13>>, 0>>
        ELSE IF i < Len(buf) THEN <<buf[i + 1][1], buf[i + 1][2]>>
        ELSE <<NulNul, 0>>

\* KeyboardBuffer.ring_write: the new _buffer
ring_write(buf, st, index, c, scan) ==
    LET i == _ring_index(st, index)
    IN  IF i < ring_length /\ i < Len(buf)
        THEN [buf EXCEPT ![i + 1] = <<c, scan, None>>]
        ELSE buf

\* KeyboardBuffer.ring_set_boundaries: the new _buffer (the new _start is newstart)
ring_set_boundaries(buf, st, newstart, newstop) ==
    LET len == (newstop - newstart) % ring_length
        start_index == _ring_index(st, newstart)
        stop_index == _ring_index(st, newstop)
        rotated == SliceFrom(buf, start_index) \o SliceTo(buf, stop_index)
    IN  rotated \o Repeat(<<NulNul, None, None>>, len - Len(rotated))

\* _split_eascii: a string of e-ascii into keystrokes (\0 plus one byte is one keystroke)
RECURSIVE _split_eascii(_, _)
_split_eascii(cp_s, d) ==
    IF cp_s = <<>> THEN <<>>
    ELSE IF d # <<>> \/ Head(cp_s) # 0
         THEN <<d \o <<Head(cp_s)>>>> \o _split_eascii(Tail(cp_s), <<>>)
         ELSE _split_eascii(Tail(cp_s), <<Head(cp_s)>>)

\* Keyboard.__init__: the pre-inserted keystrokes go in with check_full=False
RECURSIVE preinsert(_, _)
preinsert(buf, keys) ==
    IF keys = <<>> THEN buf
    ELSE preinsert(append(buf, 0, Head(keys), None, None, FALSE)[1], Tail(keys))

(***************************************************************************)
(* Keyboard: key-down and key-up events                                    *)
(***************************************************************************)
\* scancode.py: the scancodes the model uses
scancode == [CTRL |-> 29, LSHIFT |-> 42, RSHIFT |-> 54, ALT |-> 56, CAPSLOCK |-> 58,
             NUMLOCK |-> 69, SCROLLOCK |-> 70, INSERT |-> 82, KP3 |-> 81, KP0 |-> 82]

\* bit b (given by its value) of the byte n, and a bitwise operation on two bytes
Bit(n, b) == (n \div b) % 2
Bitwise(n, m, f(_, _)) ==
    f(Bit(n, 1), Bit(m, 1)) + 2 * f(Bit(n, 2), Bit(m, 2))
      + 4 * f(Bit(n, 4), Bit(m, 4)) + 8 * f(Bit(n, 8), Bit(m, 8))
      + 16 * f(Bit(n, 16), Bit(m, 16)) + 32 * f(Bit(n, 32), Bit(m, 32))
      + 64 * f(Bit(n, 64), Bit(m, 64)) + 128 * f(Bit(n, 128), Bit(m, 128))
\* n | m, n & ~m, n ^ m, n & m on bytes
BitOr(n, m) == LET f(x, y) == IF x + y > 0 THEN 1 ELSE 0 IN Bitwise(n, m, f)
BitClear(n, m) == LET f(x, y) == IF y = 1 THEN 0 ELSE x IN Bitwise(n, m, f)
BitXor(n, m) == LET f(x, y) == (x + y) % 2 IN Bitwise(n, m, f)
BitAnd(n, m) == LET f(x, y) == x * y IN Bitwise(n, m, f)

\* TOGGLE: sticky modifiers, scancode -> bit (0 for any other scancode)
TOGGLE(scan) ==
    CASE scan = scancode.INSERT -> 128 [] scan = scancode.CAPSLOCK -> 64
      [] scan = scancode.NUMLOCK -> 32 [] scan = scancode.SCROLLOCK -> 16 [] OTHER -> 0

\* MODIFIER with the bits of the two shift keys exchanged
MODIFIER_shifts_swapped(scan) ==
    CASE scan = scancode.ALT -> 8 [] scan = scancode.CTRL -> 4
      [] scan = scancode.LSHIFT -> 1 [] scan = scancode.RSHIFT -> 2 [] OTHER -> 0

\* MODIFIER: nonsticky modifiers, scancode -> bit (0 for any other scancode)
MODIFIER(scan) ==
    CASE scan = scancode.ALT -> 8 [] scan = scancode.CTRL -> 4
      [] scan = scancode.LSHIFT -> 2 [] scan = scancode.RSHIFT -> 1 [] OTHER -> 0

\* KEYPAD: scancode -> digit byte (None for any other scancode)
KEYPAD(scan) ==
    CASE scan = scancode.KP0 -> 48 [] scan = scancode.KP3 -> 51 [] OTHER -> None

\* the OR of MODIFIER.get(m, 0) over a list of scancodes
RECURSIVE ModifierBits(_)
ModifierBits(mods) ==
    IF mods = <<>> THEN 0 ELSE BitOr(MODIFIER(Head(mods)), ModifierBits(Tail(mods)))

InList(x, lst) == \E i \in 1..Len(lst) : lst[i] = x

\* str.swapcase on the letters the model types
swapcase(c) ==
    [i \in 1..Len(c) |-> IF c[i] \in 97..122 THEN c[i] - 32
                         ELSE IF c[i] \in 65..90 THEN c[i] + 32 ELSE c[i]]

\* codepage 932: the unicode ideographic space, the lead bytes and the trail bytes
IdeographicSpace == 12288
LeadBytes == (129..159) \cup (224..252)
TrailBytes == (64..126) \cup (128..252)

\* codepage.str_from_unicode: an ASCII or e-ASCII character is the byte of the same
\* number, the ideographic space is the two bytes 0x81 0x40
RECURSIVE str_from_unicode(_)
str_from_unicode(us) ==
    IF us = <<>> THEN <<>>
    ELSE (IF Head(us) = IdeographicSpace THEN <<129, 64>> ELSE <<Head(us) % 256>>)
             \o str_from_unicode(Tail(us))

\* codepage.from_unicode
from_unicode(c) == str_from_unicode(c)

\* int() of a string of digits
RECURSIVE IntOf(_)
IntOf(digits) ==
    IF digits = <<>> THEN 0
    ELSE 10 * IntOf(SubSeq(digits, 1, Len(digits) - 1)) + (digits[Len(digits)] - 48)

\* the state of the Keyboard a key event works on
KeyState == [mod |-> mod, keypad_ascii |-> keypad_ascii, last_scancode |-> last_scancode,
             buffer |-> buffer, audio |-> audio]

\* _key_down that does not clear the nonsticky bits before setting them
_key_down_sticky(st, nocaps, c, scan, mods, check_full) ==
    LET last == IF scan # None THEN scan ELSE st.last_scancode
        m2 == BitOr(st.mod, ModifierBits(mods))
        m3 == BitXor(m2, TOGGLE(scan))
        cc == IF BitAnd(m3, TOGGLE(scancode.CAPSLOCK)) # 0 /\ ~nocaps /\ Len(c) = 1
              THEN swapcase(c) ELSE c
        r == append(st.buffer, st.audio, from_unicode(cc), scan, m3, check_full)
    IN  IF InList(scancode.ALT, mods) /\ KEYPAD(scan) # None
        THEN [st EXCEPT !.last_scancode = last, !.mod = m3,
                        !.keypad_ascii = Append(st.keypad_ascii, KEYPAD(scan))]
        ELSE [st EXCEPT !.last_scancode = last, !.mod = m3,
                        !.buffer = r[1], !.audio = r[2]]

\* Keyboard._key_down(c, scan, mods, check_full)
_key_down(st, nocaps, c, scan, mods, check_full) ==
    LET last == IF scan # None THEN scan ELSE st.last_scancode
        m1 == BitClear(st.mod, BitOr(BitOr(MODIFIER(scancode.CTRL), MODIFIER(scancode.ALT)),
                                     BitOr(MODIFIER(scancode.LSHIFT), MODIFIER(scancode.RSHIFT))))
        m2 == BitOr(m1, ModifierBits(mods))
        m3 == BitXor(m2, TOGGLE(scan))
        cc == IF BitAnd(m3, TOGGLE(scancode.CAPSLOCK)) # 0 /\ ~nocaps /\ Len(c) = 1
              THEN swapcase(c) ELSE c
        r == append(st.buffer, st.audio, from_unicode(cc), scan, m3, check_full)
    IN  IF InList(scancode.ALT, mods) /\ KEYPAD(scan) # None
        THEN [st EXCEPT !.last_scancode = last, !.mod = m3,
                        !.keypad_ascii = Append(st.keypad_ascii, KEYPAD(scan))]
        ELSE [st EXCEPT !.last_scancode = last, !.mod = m3,
                        !.buffer = r[1], !.audio = r[2]]

\* _key_up that leaves the composition register as it is
_key_up_keep_register(st, scan) ==
    LET last == IF scan # None THEN 128 + scan ELSE st.last_scancode
        m1 == BitClear(st.mod, MODIFIER(scan))
        value == IntOf(st.keypad_ascii) % 256
        char == IF value = 0 THEN NulNul ELSE <<value>>
        r == append(st.buffer, st.audio, char, None, None, TRUE)
    IN  IF scan = scancode.ALT /\ st.keypad_ascii # <<>>
        THEN [st EXCEPT !.last_scancode = last, !.mod = m1,
                        !.buffer = r[1], !.audio = r[2]]
        ELSE [st EXCEPT !.last_scancode = last, !.mod = m1]

\* Keyboard._key_up(scan)
_key_up(st, scan) ==
    LET last == IF scan # None THEN 128 + scan ELSE st.last_scancode
        m1 == BitClear(st.mod, MODIFIER(scan))
        value == IntOf(st.keypad_ascii) % 256
        char == IF value = 0 THEN NulNul ELSE <<value>>
        r == append(st.buffer, st.audio, char, None, None, TRUE)
    IN  IF scan = scancode.ALT /\ st.keypad_ascii # <<>>
        THEN [st EXCEPT !.last_scancode = last, !.mod = m1, !.keypad_ascii = <<>>,
                        !.buffer = r[1], !.audio = r[2]]
        ELSE [st EXCEPT !.last_scancode = last, !.mod = m1]

\* Keyboard._stream_chars(us)
_stream_chars(stream, us) == stream \o _split_eascii(str_from_unicode(us), <<>>)

\* wait_char that goes on waiting for the keyboard after the stream has closed
wait_more_closed(buf, vessel, keyboard_only, closed) == empty(buf, vessel)

\* Keyboard.wait_char: the condition of its loop
wait_more(buf, vessel, keyboard_only, closed) ==
    empty(buf, vessel) /\ (keyboard_only \/ ~closed)

\* c in codepage.lead, c in codepage.trail, for a string c
in_lead(c) == Len(c) = 1 /\ c[1] \in LeadBytes
in_trail(c) == Len(c) = 1 /\ c[1] \in TrailBytes

\* Keyboard.get_fullchar(expand): <<character, ring, start, vessel, stream buffer>>
get_fullchar(buf, st, vessel, macros, stream, expand) ==
    LET g1 == getc(buf, st, vessel, macros, expand)
        g2 == getc(g1[2], g1[3], g1[4], macros, expand)
        dbcs == in_lead(g1[1]) /\ in_trail(peek(g1[2]))
        c == IF dbcs THEN g1[1] \o g2[1] ELSE g1[1]
        k == IF dbcs THEN g2 ELSE g1
    IN  IF c = <<>> /\ stream # <<>>
        THEN IF in_lead(Head(stream)) /\ Tail(stream) # <<>> /\ in_trail(stream[2])
             THEN <<Head(stream) \o stream[2], k[2], k[3], k[4], Tail(Tail(stream))>>
             ELSE <<Head(stream), k[2], k[3], k[4], Tail(stream)>>
        ELSE <<c, k[2], k[3], k[4], stream>>

(***************************************************************************)
(* Variables and simulated memory (var.py)                                 *)
(*                                                                         *)
(* A name is the sequence of its characters, the sigil last.  A value as   *)
(* the value system hands it over is <<type_char, payload bytes>>.         *)
(***************************************************************************)

total_mem == 60300
var_mem_start == 4720

\* ---- bounds of the memory model
MaxHeapUse == 4        \* most bytes of string heap the model follows
MaxWritten == 1        \* most array cells holding a non-default value at once

byte_size(sigil) ==
    CASE sigil = "$" -> 3 [] sigil = "%" -> 2 [] sigil = "!" -> 4 [] sigil = "#" -> 8

Sigil(name) == name[Len(name)]

\* ord() of the characters names are made of
Letters == <<"A", "B", "C", "D", "E", "F", "G", "H", "I", "J", "K", "L", "M",
             "N", "O", "P", "Q", "R", "S", "T", "U", "V", "W", "X", "Y", "Z">>
Ord(c) ==
    CASE c = "!" -> 33 [] c = "#" -> 35 [] c = "$" -> 36 [] c = "%" -> 37
      [] OTHER -> 64 + (CHOOSE k \in 1..26 : Letters[k] = c)

\* seq[i] as Python indexes it (0-based, negative from the end)
PyInRange(seq, i) == -Len(seq) <= i /\ i < Len(seq)
PyAt(seq, i) == IF i >= 0 THEN seq[i + 1] ELSE seq[Len(seq) + i + 1]
\* a byte sequence indexed so, IndexError when out of range
PyIndex(seq, i) == IF PyInRange(seq, i) THEN PyAt(seq, i) ELSE IndexError

\* vartypes.value_to_uint: 16 bits, low byte first
value_to_uint(n) == <<n % 256, (n \div 256) % 256>>

\* the number of binary digits of n > 0
RECURSIVE BitLen(_)
BitLen(n) == IF n = 0 THEN 0 ELSE 1 + BitLen(n \div 2)

\* the bytes of the non-negative whole number n as integer, MBF single, MBF double
Encode(t, n) ==
    LET m == n * 2^(24 - BitLen(n)) - 2^23
        single == IF n = 0 THEN <<0, 0, 0, 0>>
                  ELSE <<m % 256, (m \div 256) % 256, m \div 65536, 128 + BitLen(n)>>
    IN  CASE t = "%" -> value_to_uint(n)
          [] t = "!" -> single
          [] t = "#" -> <<0, 0, 0, 0>> \o single

\* numbers the model's values stand for
Numbers == {0, 1, 258}
Decode(t, bytes) == CHOOSE n \in Numbers : Encode(t, n) = bytes

RunError(n) == <<"error", n>>
IsError(v) == v[1] = "error"

\* vartypes.pass_type_keep: the value as the requested type, Type mismatch for
\* a string where a number is wanted and the reverse
pass_type_keep(typechar, value) ==
    IF (typechar = "$") # (value[1] = "$") THEN RunError(13)
    ELSE IF typechar = "$" THEN value
    ELSE <<typechar, Encode(typechar, Decode(value[1], value[2]))>>

\* vartypes.pass_string_unpack
pass_string_unpack(value) == IF value[1] = "$" THEN value ELSE RunError(13)

\* vartypes.null
null(sigil) == IF sigil = "$" THEN <<"$", <<>>>> ELSE <<sigil, Encode(sigil, 0)>>

\* a dict with key k bound to v
Put(f, k, v) == [x \in DOMAIN f \cup {k} |-> IF x = k THEN v ELSE f[x]]
Del(f, k) == [x \in DOMAIN f \ {k} |-> f[x]]

\* set_var, the value as it is stored: a string cut to 255 bytes, a number as the
\* type of the name; an error when the value does not pass
var_passed(name, value) ==
    IF Sigil(name) = "$"
    THEN LET u == pass_string_unpack(value)
         IN  IF IsError(u) THEN u ELSE <<"$", SliceTo(u[2], 255)>>
    ELSE pass_type_keep(Sigil(name), value)

\* set_var that gives a string a heap slot at its first assignment only
var_store_first_only(name, passed) ==
    LET type_char == Sigil(name)
        size == Max(3, Len(name)) + 1
        fresh == name \notin DOMAIN var_memory
        strcur == IF type_char = "$" /\ fresh THEN string_current - Len(passed[2])
                  ELSE string_current
        str_ptr == IF type_char = "$" THEN strcur + 1 ELSE -1
    IN  [err |-> 0,
         variables |-> Put(variables, name, passed),
         var_memory |->
             IF fresh
             THEN Put(var_memory, name, <<var_current, var_current + size, str_ptr>>)
             ELSE var_memory,
         var_current |->
             IF fresh THEN var_current + size + byte_size(type_char) ELSE var_current,
         string_current |-> strcur]

\* set_var, the update of the variables and of the memory model with the value stored
var_store(name, passed) ==
    LET type_char == Sigil(name)
        size == Max(3, Len(name)) + 1
        strcur == IF type_char = "$" THEN string_current - Len(passed[2])
                  ELSE string_current
        str_ptr == IF type_char = "$" THEN strcur + 1 ELSE -1
    IN  [err |-> 0,
         variables |-> Put(variables, name, passed),
         var_memory |->
             IF name \notin DOMAIN var_memory
             THEN Put(var_memory, name, <<var_current, var_current + size, str_ptr>>)
             ELSE IF type_char = "$"
             THEN Put(var_memory, name,
                      <<var_memory[name][1], var_memory[name][2], str_ptr>>)
             ELSE var_memory,
         var_current |->
             IF name \notin DOMAIN var_memory
             THEN var_current + size + byte_size(type_char)
             ELSE var_current,
         string_current |-> strcur]

\* a set_var that stores the value as handed over, unchecked and unconverted
set_var_unchecked(name, value) == var_store(name, value)

\* set_var: the state after the call, err the error raised (0 if none)
set_var(name, value) ==
    IF IsError(var_passed(name, value))
    THEN [err |-> var_passed(name, value)[2], variables |-> variables,
          var_memory |-> var_memory, var_current |-> var_current,
          string_current |-> string_current]
    ELSE var_store(name, var_passed(name, value))

\* get_var
get_var(name) ==
    IF name \in DOMAIN variables THEN variables[name] ELSE null(Sigil(name))

\* swap_var: the error raised and the new variables
swap_var(name1, name2) ==
    IF Sigil(name1) # Sigil(name2) THEN [err |-> 13, variables |-> variables]
    ELSE IF name1 \notin DOMAIN variables \/ name2 \notin DOMAIN variables
    THEN [err |-> 5, variables |-> variables]
    ELSE [err |-> 0,
          variables |-> [variables EXCEPT ![name1] = variables[name2],
                                          ![name2] = variables[name1]]]

\* index_array, with array_base as parameter
RECURSIVE index_array_from(_, _, _, _, _, _)
index_array_from(i, bigindex, area, index, dimensions, base) ==
    IF i > Len(index) THEN bigindex
    ELSE index_array_from(i + 1, bigindex + area * (index[i] - base),
                          area * (dimensions[i] + 1 - base), index, dimensions, base)

\* index_array with the area of every dimension taken as 1
index_array_flat(index, dimensions, base) ==
    index_array_from(1, 0, 1, index, [k \in DOMAIN dimensions |-> base], base)

index_array(index, dimensions, base) == index_array_from(1, 0, 1, index, dimensions, base)

array_len(dimensions, base) == index_array(dimensions, dimensions, base) + 1

var_size_bytes(name) == byte_size(Sigil(name))

\* array_size_bytes, for the arrays given
array_size_bytes(arrs, name, base) ==
    IF name \notin DOMAIN arrs THEN 0
    ELSE array_len(arrs[name][1], base) * var_size_bytes(name)

\* dim_array's loop over the dimensions without the test for a negative one
RECURSIVE dim_error_unsigned(_, _)
dim_error_unsigned(dimensions, base) ==
    IF dimensions = <<>> THEN 0
    ELSE IF Head(dimensions) < base THEN 9
    ELSE dim_error_unsigned(Tail(dimensions), base)

\* the first error of dim_array's loop over the dimensions, 0 if none
RECURSIVE dim_error(_, _)
dim_error(dimensions, base) ==
    IF dimensions = <<>> THEN 0
    ELSE IF Head(dimensions) < 0 THEN 5
    ELSE IF Head(dimensions) < base THEN 9
    ELSE dim_error(Tail(dimensions), base)

\* dim_array on the array state st = [arrays, array_memory, array_current]
dim_array(st, name, dimensions, base) ==
    IF name \in DOMAIN st.arrays THEN [st EXCEPT !.err = 10]
    ELSE IF dim_error(dimensions, base) # 0
    THEN [st EXCEPT !.err = dim_error(dimensions, base)]
    ELSE LET size == array_len(dimensions, base)
             lst == IF Sigil(name) = "$" THEN Repeat(<<>>, size)
                    ELSE Repeat(0, size * var_size_bytes(name))
             arrs == Put(st.arrays, name, <<dimensions, lst>>)
             name_ptr == st.array_current
             record_len == 1 + Max(3, Len(name)) + 3 + 2 * Len(dimensions)
         IN  [err |-> 0,
              arrays |-> arrs,
              array_memory |-> Put(st.array_memory, name, <<name_ptr, name_ptr + record_len>>),
              array_current |->
                  st.array_current + record_len + array_size_bytes(arrs, name, base)]

\* check_dim_array's loop over the indices without the test for a negative index
RECURSIVE index_error_unsigned(_, _, _)
index_error_unsigned(index, dimensions, base) ==
    IF index = <<>> THEN 0
    ELSE IF Head(index) < base \/ Head(index) > Head(dimensions) THEN 9
    ELSE index_error_unsigned(Tail(index), Tail(dimensions), base)

\* the first error of check_dim_array's loop over the indices, 0 if none
RECURSIVE index_error(_, _, _)
index_error(index, dimensions, base) ==
    IF index = <<>> THEN 0
    ELSE IF Head(index) < 0 THEN 5
    ELSE IF Head(index) < base \/ Head(index) > Head(dimensions) THEN 9
    ELSE index_error(Tail(index), Tail(dimensions), base)

\* check_dim_array with an unknown array dimensioned only when the index passes
check_dim_array_checked_first(st, name, index, base) ==
    LET st1 == IF name \in DOMAIN st.arrays THEN [st EXCEPT !.err = 0]
               ELSE dim_array(st, name, Repeat(10, Len(index)), base)
        r == IF st1.err # 0 THEN st1
             ELSE IF Len(index) # Len(st1.arrays[name][1]) THEN [st1 EXCEPT !.err = 9]
             ELSE [st1 EXCEPT !.err = index_error(index, st1.arrays[name][1], base)]
    IN  IF r.err # 0 THEN [st EXCEPT !.err = r.err] ELSE r

\* check_dim_array: auto-dimensions an unknown array, then checks the index
check_dim_array(st, name, index, base) ==
    LET st1 == IF name \in DOMAIN st.arrays THEN [st EXCEPT !.err = 0]
               ELSE dim_array(st, name, Repeat(10, Len(index)), base)
    IN  IF st1.err # 0 THEN st1
        ELSE IF Len(index) # Len(st1.arrays[name][1]) THEN [st1 EXCEPT !.err = 9]
        ELSE [st1 EXCEPT !.err = index_error(index, st1.arrays[name][1], base)]

\* get_array: the array state after the call and the value returned
get_array(st, name, index, base) ==
    LET st1 == check_dim_array(st, name, index, base)
    IN  IF st1.err # 0 THEN [st |-> st1, value |-> None]
        ELSE LET lst == st1.arrays[name][2]
                 bigindex == index_array(index, st1.arrays[name][1], base)
                 n == var_size_bytes(name)
             IN  [st |-> st1,
                  value |-> IF Sigil(name) = "$" THEN <<"$", lst[bigindex + 1]>>
                            ELSE <<Sigil(name), SubSeq(lst, bigindex * n + 1, (bigindex + 1) * n)>>]

\* set_array: the array state after the call
set_array(st, name, index, value, base) ==
    LET st1 == check_dim_array(st, name, index, base)
    IN  IF st1.err # 0 THEN st1
        ELSE LET lst == st1.arrays[name][2]
                 bigindex == index_array(index, st1.arrays[name][1], base)
                 v == pass_type_keep(Sigil(name), value)
                 n == var_size_bytes(name)
             IN  IF IsError(v) THEN [st1 EXCEPT !.err = v[2]]
                 ELSE IF Sigil(name) = "$"
                 THEN [st1 EXCEPT !.arrays[name][2][bigindex + 1] = v[2]]
                 ELSE [st1 EXCEPT !.arrays[name][2] =
                          SubSeq(lst, 1, bigindex * n) \o v[2]
                              \o SubSeq(lst, (bigindex + 1) * n + 1, Len(lst))]

\* erase_array: the error raised and the new arrays
erase_array(name) ==
    IF name \in DOMAIN arrays THEN [err |-> 0, arrays |-> Del(arrays, name)]
    ELSE [err |-> 5, arrays |-> arrays]

\* base_array without the test for existing arrays
base_array_unguarded(base) ==
    IF base \notin {1, 0} THEN [err |-> 2, array_base |-> array_base]
    ELSE [err |-> 0, array_base |-> base]

\* base_array: the error raised and the new array_base
base_array(base) ==
    IF base \notin {1, 0} THEN [err |-> 2, array_base |-> array_base]
    ELSE IF DOMAIN arrays # {} THEN [err |-> 10, array_base |-> array_base]
    ELSE [err |-> 0, array_base |-> base]

\* the sum of the lengths of the strings of a list
RECURSIVE SumLen(_)
SumLen(lst) == IF lst = <<>> THEN 0 ELSE Len(Head(lst)) + SumLen(Tail(lst))

\* variables_memory_size: the loop over the scalars
RECURSIVE scalars_size(_, _)
scalars_size(vars_, names) ==
    IF names = {} THEN 0
    ELSE LET name == CHOOSE n \in names : TRUE
         IN  1 + Max(3, Len(name))
               + (IF Sigil(name) = "$" THEN 3 + Len(vars_[name][2])
                                       ELSE var_size_bytes(name))
               + scalars_size(vars_, names \ {name})

\* variables_memory_size: the loop over the arrays
RECURSIVE arrays_size(_, _, _)
arrays_size(arrs, names, base) ==
    IF names = {} THEN 0
    ELSE LET name == CHOOSE n \in names : TRUE
         IN  4 + array_size_bytes(arrs, name, base) + Max(3, Len(name))
               + 2 * Len(arrs[name][1])
               + (IF Sigil(name) = "$" THEN SumLen(arrs[name][2]) ELSE 0)
               + arrays_size(arrs, names \ {name}, base)

\* variables_memory_size
variables_memory_size(vars_, arrs, base) ==
    scalars_size(vars_, DOMAIN vars_) + arrays_size(arrs, DOMAIN arrs, base)

\* get_var_ptr for a scalar
get_var_ptr(name) ==
    IF name \in DOMAIN var_memory THEN var_memory[name][2] ELSE -1

\* get_name_in_memory
get_name_in_memory(name, offset) ==
    IF offset = 0 THEN byte_size(Sigil(name))
    ELSE IF offset = 1 THEN Ord(name[1])
    ELSE IF offset = 2 THEN (IF Len(name) > 2 THEN Ord(name[2]) ELSE 0)
    ELSE IF offset = 3 THEN (IF Len(name) > 3 THEN Len(name) - 3 ELSE 0)
    ELSE IF PyInRange(name, offset - 1) THEN Ord(PyAt(name, offset - 1)) - 65 + 193
    ELSE IndexError

\* the scalar whose record starts last at or before the address, NoName if none
the_var(address) ==
    LET at == { n \in DOMAIN var_memory : var_memory[n][1] <= address }
    IN  IF at = {} THEN NoName
        ELSE CHOOSE n \in at : \A o \in at : var_memory[o][1] <= var_memory[n][1]

\* the string scalar whose heap slot starts last at or before the address
the_str(address) ==
    LET at == { n \in DOMAIN var_memory :
                  var_memory[n][3] <= address /\ var_memory[n][3] > -1 }
    IN  IF at = {} THEN NoName
        ELSE CHOOSE n \in at : \A o \in at : var_memory[o][3] <= var_memory[n][3]

\* the array whose record starts last at or before the address (name_ptr is
\* relative to the array region, the address is not), NoName if none
the_arr(address) ==
    LET at == { n \in DOMAIN array_memory : array_memory[n][1] <= address }
    IN  IF at = {} THEN NoName
        ELSE CHOOSE n \in at : \A o \in at : array_memory[o][1] <= array_memory[n][1]

\* get_var_memory, scalar region.  name is what the loop variable of
\* "for name in var_memory" is left bound to: the key the dict yields last.
get_scalar_memory(address, name) ==
    IF the_var(address) = NoName THEN -1
    ELSE LET var_addr == var_memory[the_var(address)][2]
             str_addr == var_memory[the_var(address)][3]
             name_ptr == var_memory[name][1]
         IN  IF address >= var_addr
             THEN LET offset == address - var_addr
                      var_rep == IF Sigil(name) = "$"
                                 THEN <<Len(variables[name][2])>> \o value_to_uint(str_addr)
                                 ELSE variables[name][2]
                  IN  IF offset >= byte_size(Sigil(name)) THEN -1
                      ELSE var_rep[offset + 1]
             ELSE get_name_in_memory(name, address - name_ptr)

\* the dimension table of an array record: record length, number of dimensions, extents
RECURSIVE extents(_)
extents(dimensions) ==
    IF dimensions = <<>> THEN <<>>
    ELSE value_to_uint(Head(dimensions) + 1 - array_base) \o extents(Tail(dimensions))

\* get_var_memory, array region.  name is the key array_memory yields last.
get_array_memory(address, name) ==
    IF the_arr(address) = NoName THEN -1
    ELSE LET arr_addr == array_memory[the_arr(address)][2]
             name_ptr == array_memory[name][1]
             header == Max(3, Len(name)) + 1
         IN  IF address >= var_current + arr_addr
             THEN LET offset == address - arr_addr - var_current
                  IN  IF offset >= array_size_bytes(arrays, name, array_base) THEN -1
                      ELSE IF Sigil(name) = "$" THEN 0
                      ELSE arrays[name][2][offset + 1]
             ELSE LET offset == address - name_ptr - var_current
                  IN  IF offset < header THEN get_name_in_memory(name, offset)
                      ELSE IF name \notin DOMAIN arrays THEN KeyError
                      ELSE LET dimensions == arrays[name][1]
                               data_rep ==
                                   value_to_uint(array_size_bytes(arrays, name, array_base)
                                                 + 1 + 2 * Len(dimensions))
                                   \o <<Len(dimensions)>> \o extents(dimensions)
                           IN  PyIndex(data_rep, offset - header)

\* get_var_memory, string space
get_string_memory(address, name) ==
    IF the_str(address) = NoName THEN -1
    ELSE PyIndex(variables[name][2], address - var_memory[the_str(address)][3])

\* get_var_memory: name and arr_name are the keys var_memory and array_memory yield last
get_var_memory(address, name, arr_name) ==
    IF address < var_current THEN get_scalar_memory(address, name)
    ELSE IF address < var_current + array_current THEN get_array_memory(address, arr_name)
    ELSE IF address > string_current THEN get_string_memory(address, name)
    ELSE 0

\* clear_variables
MemInit ==
    /\ variables = <<>>
    /\ var_memory = <<>>
    /\ var_current = var_mem_start
    /\ string_current = var_mem_start + total_mem
    /\ arrays = <<>>
    /\ array_memory = <<>>
    /\ array_current = 0
    /\ array_base = 0
    /\ mop = [op |-> "init", name |-> NoName, name2 |-> NoName, type |-> "", index |-> <<>>]
    /\ merr = 0
    /\ mret = None
    /\ erases = 0
    /\ shadow = <<>>

(***************************************************************************)
(* Statement dispatcher                                                    *)
(***************************************************************************)
\* error.STX, Syntax error
STX == 2

\* tokens.py: keyword tokens, by keyword
tk_END == "END"
tk_STOP == "STOP"
tk_NEW == "NEW"
tk_WEND == "WEND"
tk_SYSTEM == "SYSTEM"
tk_CONT == "CONT"
tk_TRON == "TRON"
tk_TROFF == "TROFF"
tk_RESET == "RESET"
tk_LET == "LET"
tk_O_EQ == "="

\* what ends a statement: end of line, colon, and the end of the stream ("")
end_statement == {"EOL", ":", ""}
\* string.ascii_letters, as far as the model's names go
ascii_letters == {"A"}
\* c in string.ascii_letters, a substring test: the empty string is in
in_ascii_letters(c) == c = "" \/ c \in ascii_letters

\* the token at the reader's position, "" at the end of the stream
ins_peek(c, p) == IF p < Len(c) THEN c[p + 1] ELSE ""

\* ins.skip_blank: the position of the first token that is no blank
RECURSIVE skip_blank(_, _)
skip_blank(c, p) == IF ins_peek(c, p) = " " THEN skip_blank(c, p + 1) ELSE p

\* ins.read_keyword_token: the token read and the position after it
read_keyword_token(c, p) == <<ins_peek(c, p), Min(p + 1, Len(c))>>

\* len(c) of a token read, counted in tokens
token_len(tok) == IF tok = "" THEN 0 ELSE 1

\* ins.seek(offset, 1)
seek(p, offset) == p + offset

\* ins.require_end: skips blanks, Syntax error unless a statement end follows
require_end(c, p) ==
    LET q == skip_blank(c, p)
    IN  [pos |-> q, err |-> IF ins_peek(c, q) \in end_statement THEN 0 ELSE STX]

\* ins.read_name: the name read ("" if no letter follows) and the position after
read_name(c, p) ==
    LET q == skip_blank(c, p)
    IN  IF ins_peek(c, q) \in ascii_letters THEN <<ins_peek(c, q), q + 1>> ELSE <<"", q>>

\* _parse_variable, for a scalar
_parse_variable(c, p) ==
    LET r == read_name(c, p)
    IN  [pos |-> r[2], err |-> IF r[1] = "" THEN STX ELSE 0]

\* ins.require_read((tk.O_EQ,))
require_read_eq(c, p) ==
    LET q == skip_blank(c, p)
    IN  IF ins_peek(c, q) = tk_O_EQ THEN [pos |-> q + 1, err |-> 0]
        ELSE [pos |-> q, err |-> STX]

\* parse_expression: a number literal is an expression, nothing else the model has
parse_expression(c, p) ==
    LET q == skip_blank(c, p)
    IN  IF ins_peek(c, q) = "1" THEN [pos |-> q + 1, err |-> 0]
        ELSE [pos |-> q, err |-> STX]

\* _parse_let_args_iter, run to its end by the callback
_parse_let_args_iter(c, p) ==
    LET v == _parse_variable(c, p)
        e == require_read_eq(c, v.pos)
    IN  IF v.err # 0 THEN v
        ELSE IF e.err # 0 THEN e
        ELSE parse_expression(c, e.pos)

\* exec_args_iter for LET: the callback is invoked on the argument generator
exec_args_iter(c, p, tr, callback) ==
    LET r == _parse_let_args_iter(c, p)
    IN  [pos |-> r.pos, trace |-> Append(tr, callback), err |-> r.err]

\* exec_after_end with the callback invoked before the statement end is required
exec_after_end_late(c, p, tr, callback) ==
    LET r == require_end(c, p)
    IN  [pos |-> r.pos, trace |-> Append(tr, callback), err |-> r.err]

\* exec_after_end
exec_after_end(c, p, tr, callback) ==
    LET r == require_end(c, p)
    IN  IF r.err # 0 THEN [pos |-> r.pos, trace |-> tr, err |-> r.err]
        ELSE [pos |-> r.pos, trace |-> Append(tr, callback), err |-> 0]

\* exec_immediate with the statement end required first
exec_immediate_checked(c, p, tr, callback) == exec_after_end(c, p, tr, callback)

\* exec_immediate
exec_immediate(c, p, tr, callback) == [pos |-> p, trace |-> Append(tr, callback), err |-> 0]

\* init_statements: the keys of self.statements the model has
after_end_tokens == {tk_END, tk_STOP, tk_NEW, tk_WEND, tk_SYSTEM}
immediate_tokens == {tk_CONT, tk_TRON, tk_TROFF, tk_RESET}
statements == after_end_tokens \cup immediate_tokens \cup {tk_LET}

\* the session callback self.statements binds to a token
callback(tok) ==
    CASE tok = tk_END -> "end_" [] tok = tk_STOP -> "stop_" [] tok = tk_NEW -> "new_"
      [] tok = tk_WEND -> "wend_" [] tok = tk_SYSTEM -> "system_"
      [] tok = tk_CONT -> "cont_" [] tok = tk_TRON -> "tron_" [] tok = tk_TROFF -> "troff_"
      [] tok = tk_RESET -> "reset_" [] tok = tk_LET -> "let_"

\* self.statements[tok](ins)
statement_routine(tok, c, p, tr) ==
    IF tok \in after_end_tokens THEN exec_after_end(c, p, tr, callback(tok))
    ELSE IF tok \in immediate_tokens THEN exec_immediate(c, p, tr, callback(tok))
    ELSE exec_args_iter(c, p, tr, callback(tok))

\* a routine's outcome, with the key of self.statements it was invoked for
Invoked(tok, r) == [pos |-> r.pos, trace |-> r.trace, err |-> r.err, routine |-> tok]

\* parse_statement: the reader's position, the trace, the error raised and the
\* key of self.statements whose routine was invoked ("" if none was)
parse_statement(c, p, tr) ==
    LET rd == read_keyword_token(c, skip_blank(c, p))
        tok == rd[1]
        back == seek(rd[2], -token_len(tok))
    IN  IF tok \in statements
        THEN LET r == statement_routine(tok, c, rd[2], tr)
                 e == require_end(c, r.pos)
             IN  IF r.err # 0 THEN Invoked(tok, r)
                 ELSE Invoked(tok, [pos |-> e.pos, trace |-> r.trace, err |-> e.err])
        ELSE IF in_ascii_letters(tok)
        THEN Invoked(tk_LET, statement_routine(tk_LET, c, back, tr))
        ELSE LET e == require_end(c, back)
             IN  Invoked("", [pos |-> e.pos, trace |-> tr, err |-> e.err])

\* ---- branching statements
tk_IF == "IF"
tk_THEN == "THEN"
tk_GOTO == "GOTO"
tk_GOSUB == "GOSUB"
tk_ELSE == "ELSE"
tk_FOR == "FOR"
tk_TO == "TO"
tk_STEP == "STEP"
tk_ON == "ON"
\* a line number pointer, tk.T_UINT with its two bytes, is one token of the model
T_UINT == {"100", "200", "300"}

\* ins.skip_blank_read_if(in_range): the token read ("" if none) and the position
skip_blank_read_if(c, p, in_range) ==
    LET q == skip_blank(c, p)
    IN  IF ins_peek(c, q) # "" /\ ins_peek(c, q) \in in_range
        THEN <<ins_peek(c, q), q + 1>> ELSE <<"", q>>

\* ins.require_read(in_range): Syntax error unless a token of in_range follows
require_read(c, p, in_range) ==
    LET q == skip_blank(c, p)
    IN  IF ins_peek(c, q) \in in_range
        THEN [pos |-> q + 1, err |-> 0, tok |-> ins_peek(c, q)]
        ELSE [pos |-> q, err |-> STX, tok |-> ""]

\* ins.skip_to(findrange): the position of the first token of findrange
RECURSIVE skip_to(_, _, _)
skip_to(c, p, findrange) ==
    IF ins_peek(c, p) \in findrange THEN p ELSE skip_to(c, p + 1, findrange)

\* number literals and their values
literal ==
    [t \in {"-1", "0", "1", "2", "3", "255", "256"} |->
        CASE t = "-1" -> -1 [] t = "0" -> 0 [] t = "1" -> 1 [] t = "2" -> 2 [] t = "3" -> 3
          [] t = "255" -> 255 [] t = "256" -> 256]

\* parse_expression with its value: a number literal is an expression, nothing else
parse_expression_value(c, p) ==
    LET q == skip_blank(c, p)
    IN  IF ins_peek(c, q) \in DOMAIN literal
        THEN [pos |-> q + 1, err |-> 0, val |-> literal[ins_peek(c, q)]]
        ELSE [pos |-> q, err |-> STX, val |-> 0]

\* _parse_jumpnum: the position after the line number and the number's token
_parse_jumpnum(c, p) == require_read(c, p, T_UINT)

\* the trace entry of interpreter.jump(jumpnum)
jump(jumpnum) ==
    CASE jumpnum = "100" -> "jump 100" [] jumpnum = "200" -> "jump 200"
      [] jumpnum = "300" -> "jump 300"

\* the trace entry of interpreter.jump_sub(jumpnum)
jump_sub(jumpnum) ==
    CASE jumpnum = "100" -> "jump_sub 100" [] jumpnum = "200" -> "jump_sub 200"
      [] jumpnum = "300" -> "jump_sub 300"

\* where a jump leaves the reader: on the end-of-line byte that starts the target
\* line, for which the stream's last token stands
target(c) == Len(c) - 1

\* exec_if, FALSE: the loop that looks for the ELSE block, without the nesting
RECURSIVE find_else_flat(_, _, _)
find_else_flat(c, p, nesting_level) ==
    LET q == skip_to(c, p, end_statement \cup {tk_IF})
        d == ins_peek(c, q)
        e == skip_blank_read_if(c, q + 1, {tk_ELSE})
    IN  IF d = tk_IF THEN find_else_flat(c, q + 1, nesting_level)
        ELSE IF d = ":"
        THEN IF e[1] = tk_ELSE THEN [pos |-> e[2], found |-> TRUE]
             ELSE find_else_flat(c, e[2], nesting_level)
        ELSE [pos |-> seek(q + token_len(d), -token_len(d)), found |-> FALSE]

\* exec_if, FALSE: the loop that looks for the ELSE block; the position it leaves
\* the reader at and whether it met the ELSE to go on from
RECURSIVE find_else(_, _, _)
find_else(c, p, nesting_level) ==
    LET q == skip_to(c, p, end_statement \cup {tk_IF})
        d == ins_peek(c, q)
        e == skip_blank_read_if(c, q + 1, {tk_ELSE})
    IN  IF d = tk_IF THEN find_else(c, q + 1, nesting_level + 1)
        ELSE IF d = ":"
        THEN IF e[1] = tk_ELSE
             THEN IF nesting_level > 0 THEN find_else(c, e[2], nesting_level - 1)
                  ELSE [pos |-> e[2], found |-> TRUE]
             ELSE find_else(c, e[2], nesting_level)
        ELSE [pos |-> seek(q + token_len(d), -token_len(d)), found |-> FALSE]

\* error.IFC, Illegal function call
IFC == 5

\* error.range_check(lower, upper, allvars)
range_check(lower, upper, allvars) == IF allvars < lower \/ allvars > upper THEN IFC ELSE 0

\* exec_on_jump, onvar in (0, 255): every jump number provided is checked
RECURSIVE check_jumps(_, _)
check_jumps(c, p) ==
    LET q == skip_blank(c, p)
        num == _parse_jumpnum(c, q)
        comma == skip_blank_read_if(c, num.pos, {","})
    IN  IF ins_peek(c, q) \notin T_UINT \/ comma[1] = "" THEN
            require_end(c, IF ins_peek(c, q) \notin T_UINT THEN q ELSE comma[2])
        ELSE check_jumps(c, comma[2])

\* exec_on_jump: the loop over the jump numbers before our choice; returned is set
\* when the routine returns from the loop
RECURSIVE skip_jumps(_, _, _, _)
skip_jumps(c, p, skipped, onvar) ==
    IF skipped < onvar - 1
    THEN LET num == _parse_jumpnum(c, p)
             comma == skip_blank_read_if(c, num.pos, {","})
             e == require_end(c, comma[2])
         IN  IF num.err # 0 THEN [pos |-> num.pos, err |-> num.err, returned |-> TRUE]
             ELSE IF comma[1] = "" THEN [pos |-> e.pos, err |-> e.err, returned |-> TRUE]
             ELSE skip_jumps(c, comma[2], skipped + 1, onvar)
    ELSE [pos |-> p, err |-> 0, returned |-> FALSE]

\* exec_on_jump with the jump made to the first line number, whatever onvar is
exec_on_jump_first(c, p, tr) ==
    LET onvar == parse_expression_value(c, p)
        command == require_read(c, onvar.pos, {tk_GOTO, tk_GOSUB})
        jumpnum == _parse_jumpnum(c, command.pos)
    IN  IF onvar.err # 0 THEN [pos |-> onvar.pos, trace |-> tr, err |-> onvar.err]
        ELSE IF range_check(0, 255, onvar.val) # 0
        THEN [pos |-> onvar.pos, trace |-> tr, err |-> range_check(0, 255, onvar.val)]
        ELSE IF command.err # 0 THEN [pos |-> command.pos, trace |-> tr, err |-> command.err]
        ELSE IF jumpnum.err # 0 THEN [pos |-> jumpnum.pos, trace |-> tr, err |-> jumpnum.err]
        ELSE [pos |-> target(c), err |-> 0,
              trace |-> Append(tr, IF command.tok = tk_GOTO THEN jump(jumpnum.tok)
                                   ELSE jump_sub(jumpnum.tok))]

\* exec_on_jump
exec_on_jump(c, p, tr) ==
    LET onvar == parse_expression_value(c, p)
        command == require_read(c, onvar.pos, {tk_GOTO, tk_GOSUB})
        checked == check_jumps(c, command.pos)
        skipped == skip_jumps(c, command.pos, 0, onvar.val)
        jumpnum == _parse_jumpnum(c, skipped.pos)
    IN  IF onvar.err # 0 THEN [pos |-> onvar.pos, trace |-> tr, err |-> onvar.err]
        ELSE IF range_check(0, 255, onvar.val) # 0
        THEN [pos |-> onvar.pos, trace |-> tr, err |-> range_check(0, 255, onvar.val)]
        ELSE IF command.err # 0 THEN [pos |-> command.pos, trace |-> tr, err |-> command.err]
        ELSE IF onvar.val \in {0, 255}
        THEN [pos |-> checked.pos, trace |-> tr, err |-> checked.err]
        ELSE IF skipped.returned THEN [pos |-> skipped.pos, trace |-> tr, err |-> skipped.err]
        ELSE IF jumpnum.err # 0 THEN [pos |-> jumpnum.pos, trace |-> tr, err |-> jumpnum.err]
        ELSE [pos |-> target(c), err |-> 0,
              trace |-> Append(tr, IF command.tok = tk_GOTO THEN jump(jumpnum.tok)
                                   ELSE jump_sub(jumpnum.tok))]

\* error.TYPE_MISMATCH
TYPE_MISMATCH == 13

\* a string literal, one token of the model
string_literal == "\"X\""

\* variable names as the reader meets them, and the sigil complete_name leaves them
\* with (single precision when the name has none)
sigil_of == [n \in {"A", "A%", "A$", "A#"} |->
               CASE n = "A" -> "!" [] n = "A%" -> "%" [] n = "A$" -> "$" [] n = "A#" -> "#"]

\* parse_name: Syntax error if no name follows
parse_name(c, p) ==
    LET q == skip_blank(c, p)
    IN  IF ins_peek(c, q) \in DOMAIN sigil_of
        THEN [pos |-> q + 1, err |-> 0, name |-> ins_peek(c, q)]
        ELSE [pos |-> q, err |-> STX, name |-> ""]

\* values.to_type(typechar, value), on the sigil of the value: a conversion between
\* a string and a number raises Type mismatch
to_type(typechar, sigil) == IF (typechar = "$") # (sigil = "$") THEN TYPE_MISMATCH ELSE 0

\* values.to_type(vartype, self.parse_expression(ins)): number and string literals
\* are the expressions here
parse_to_type(c, p, vartype) ==
    LET q == skip_blank(c, p)
        tok == ins_peek(c, q)
    IN  IF tok \in DOMAIN literal THEN [pos |-> q + 1, err |-> to_type(vartype, "%")]
        ELSE IF tok = string_literal THEN [pos |-> q + 1, err |-> to_type(vartype, "$")]
        ELSE [pos |-> q, err |-> STX]

\* exec_for
exec_for(c, p, tr) ==
    LET varname == parse_name(c, p)
        vartype == sigil_of[varname.name]
        eq == require_read(c, varname.pos, {tk_O_EQ})
        start_ == parse_to_type(c, eq.pos, vartype)
        to == require_read(c, start_.pos, {tk_TO})
        stop_ == parse_to_type(c, to.pos, vartype)
        has_step == skip_blank_read_if(c, stop_.pos, {tk_STEP})
        step == IF has_step[1] = tk_STEP THEN parse_to_type(c, has_step[2], vartype)
                ELSE [pos |-> has_step[2], err |-> 0]
        e == require_end(c, step.pos)
        raised(q, n) == [pos |-> q, trace |-> tr, err |-> n]
    IN  IF varname.err # 0 THEN raised(varname.pos, varname.err)
        ELSE IF eq.err # 0 THEN raised(eq.pos, eq.err)
        ELSE IF start_.err # 0 THEN raised(start_.pos, start_.err)
        ELSE IF to.err # 0 THEN raised(to.pos, to.err)
        ELSE IF vartype \in {"$", "#"} THEN raised(to.pos, TYPE_MISMATCH)
        ELSE IF stop_.err # 0 THEN raised(stop_.pos, stop_.err)
        ELSE IF step.err # 0 THEN raised(step.pos, step.err)
        ELSE IF e.err # 0 THEN raised(e.pos, e.err)
        ELSE [pos |-> e.pos, trace |-> Append(tr, "for_"), err |-> 0]

\* exec_on, for what is no ON ERROR and no ON event
exec_on(c, p, tr) == exec_on_jump(c, p, tr)

\* ---- OPEN
tk_OPEN == "OPEN"
tk_INPUT == "INPUT"
tk_LOCK == "LOCK"
tk_LEN == "LEN"
tk_READ == "READ"
tk_WRITE == "WRITE"
tk_W_OUTPUT == "OUTPUT"
tk_W_RANDOM == "RANDOM"
tk_W_APPEND == "APPEND"
tk_W_ACCESS == "ACCESS"
tk_W_SHARED == "SHARED"
tk_W_AS == "AS"
\* error.BAD_FILE_MODE
BAD_FILE_MODE == 54

\* string literals, each one token, with first_expr[:1].upper() of their value
first_upper ==
    [t \in {"\"I\"", "\"o\"", "\"X\"", "\"\""} |->
        CASE t = "\"I\"" -> "I" [] t = "\"o\"" -> "O" [] t = "\"X\"" -> "X" [] t = "\"\"" -> ""]

\* _parse_temporary_string: the string read; a number raises Type mismatch
_parse_temporary_string(c, p) ==
    LET q == skip_blank(c, p)
        tok == ins_peek(c, q)
    IN  IF tok \in DOMAIN first_upper THEN [pos |-> q + 1, err |-> 0, val |-> tok]
        ELSE IF tok \in DOMAIN literal THEN [pos |-> q + 1, err |-> TYPE_MISMATCH, val |-> ""]
        ELSE [pos |-> q, err |-> STX, val |-> ""]

\* values.to_int(self.parse_expression(ins)): the literal read, as its token
parse_to_int(c, p) ==
    LET q == skip_blank(c, p)
        tok == ins_peek(c, q)
    IN  IF tok \in DOMAIN literal THEN [pos |-> q + 1, err |-> 0, val |-> tok]
        ELSE IF tok \in DOMAIN first_upper THEN [pos |-> q + 1, err |-> TYPE_MISMATCH, val |-> ""]
        ELSE [pos |-> q, err |-> STX, val |-> ""]

\* _parse_file_number(ins, opt_hash=True)
_parse_file_number(c, p) ==
    LET hash == skip_blank_read_if(c, p, {"#"})
        number == parse_to_int(c, hash[2])
    IN  IF number.err # 0 THEN number
        ELSE [number EXCEPT !.err = range_check(0, 255, literal[number.val])]

\* an optional clause of one token and an expression: the value is "None" when
\* the token is not there
optional_int(c, p, tok, eq) ==
    LET t == skip_blank_read_if(c, p, {tok})
        e == IF eq THEN require_read(c, t[2], {tk_O_EQ}) ELSE [pos |-> t[2], err |-> 0]
        v == parse_to_int(c, e.pos)
    IN  IF t[1] = "" THEN [pos |-> t[2], err |-> 0, val |-> "None"]
        ELSE IF e.err # 0 THEN [pos |-> e.pos, err |-> e.err, val |-> ""]
        ELSE v

\* the first of the records that holds an error, the last one if none does
RECURSIVE first_error(_)
first_error(rs) ==
    IF Len(rs) = 1 \/ Head(rs).err # 0 THEN Head(rs) ELSE first_error(Tail(rs))

\* _parse_open_first with the mode looked at after the file number is parsed
_parse_open_first_late(c, p, first_expr) ==
    LET mode == first_upper[first_expr]
        number == _parse_file_number(c, p)
        comma == require_read(c, number.pos, {","})
        name == _parse_temporary_string(c, comma.pos)
        reclen == optional_int(c, name.pos, ",", FALSE)
        bad == [pos |-> number.pos,
                err |-> IF mode \notin {"I", "O", "A", "R"} THEN BAD_FILE_MODE ELSE 0]
        r == first_error(<<number, bad, comma, name, reclen>>)
    IN  [pos |-> r.pos, err |-> r.err, args |-> <<number.val, name.val, mode, reclen.val>>]

\* _parse_open_first: the reader's position, the error and the arguments of open_
_parse_open_first(c, p, first_expr) ==
    LET mode == first_upper[first_expr]
        number == _parse_file_number(c, p)
        comma == require_read(c, number.pos, {","})
        name == _parse_temporary_string(c, comma.pos)
        reclen == optional_int(c, name.pos, ",", FALSE)
        r == first_error(<<number, comma, name, reclen>>)
    IN  IF mode \notin {"I", "O", "A", "R"}
        THEN [pos |-> p, err |-> BAD_FILE_MODE, args |-> <<>>]
        ELSE [pos |-> r.pos, err |-> r.err,
              args |-> <<number.val, name.val, mode, reclen.val>>]

\* _parse_read_write
_parse_read_write(c, p) ==
    LET d == skip_blank_read_if(c, p, {tk_READ, tk_WRITE})
        w == skip_blank_read_if(c, d[2], {tk_WRITE})
    IN  IF d[1] = tk_WRITE THEN [pos |-> d[2], err |-> 0, val |-> "W"]
        ELSE IF d[1] = tk_READ
        THEN [pos |-> w[2], err |-> 0, val |-> IF w[1] = tk_WRITE THEN "RW" ELSE "R"]
        ELSE [pos |-> d[2], err |-> STX, val |-> ""]

\* _parse_open_second, the FOR clause
open_mode(c, p) ==
    LET for == skip_blank_read_if(c, p, {tk_FOR})
        input == skip_blank_read_if(c, for[2], {tk_INPUT})
        q == skip_blank(c, for[2])
        word == ins_peek(c, q)
    IN  IF for[1] = "" THEN [pos |-> for[2], err |-> 0, val |-> "None"]
        ELSE IF input[1] = tk_INPUT THEN [pos |-> input[2], err |-> 0, val |-> "I"]
        ELSE IF word \in {tk_W_OUTPUT, tk_W_RANDOM, tk_W_APPEND}
        THEN [pos |-> q + 1, err |-> 0,
              val |-> CASE word = tk_W_OUTPUT -> "O" [] word = tk_W_RANDOM -> "R"
                        [] word = tk_W_APPEND -> "A"]
        ELSE [pos |-> q, err |-> STX, val |-> ""]

\* _parse_open_second, the ACCESS clause
open_access(c, has_access) ==
    IF has_access[1] = "" THEN [pos |-> has_access[2], err |-> 0, val |-> "None"]
    ELSE _parse_read_write(c, has_access[2])

\* _parse_open_second, the LOCK clause or SHARED
open_lock(c, has_lock) ==
    LET shared == skip_blank_read_if(c, has_lock[2], {tk_W_SHARED})
    IN  IF has_lock[1] # "" THEN _parse_read_write(c, has_lock[2])
        ELSE [pos |-> shared[2], err |-> 0,
              val |-> IF shared[1] = "" THEN "None" ELSE shared[1]]

\* _parse_open_second, what is returned or raised once the clauses are parsed
open_second_args(first_expr, mode, access, lock, as, number, reclen) ==
    LET r == first_error(<<mode, access, lock, as, number, reclen>>)
    IN  [pos |-> r.pos, err |-> r.err,
         args |-> <<number.val, first_expr, mode.val, reclen.val, access.val, lock.val>>]

\* _parse_open_second
_parse_open_second(c, p, first_expr) ==
    LET mode == open_mode(c, p)
        access == open_access(c, skip_blank_read_if(c, mode.pos, {tk_W_ACCESS}))
        lock == open_lock(c, skip_blank_read_if(c, access.pos, {tk_LOCK}))
        as == require_read(c, lock.pos, {tk_W_AS})
        number == _parse_file_number(c, as.pos)
        reclen == optional_int(c, number.pos, tk_LEN, TRUE)
    IN  open_second_args(first_expr, mode, access, lock, as, number, reclen)

\* exec_open, the call of open_ with the arguments parsed, unless an error was raised
open_call(tr, first_expr, args) ==
    IF first_expr.err # 0 THEN [pos |-> first_expr.pos, trace |-> tr, err |-> first_expr.err]
    ELSE IF args.err # 0 THEN [pos |-> args.pos, trace |-> tr, err |-> args.err]
    ELSE [pos |-> args.pos, trace |-> tr \o <<"open_">> \o args.args, err |-> 0]

\* exec_open: the old form after a comma, the new form otherwise
open_args(c, first_expr, comma) ==
    IF comma[1] = "," THEN _parse_open_first(c, comma[2], first_expr.val)
    ELSE _parse_open_second(c, comma[2], first_expr.val)

\* exec_open, once the first expression is read
open_rest(c, tr, first_expr) ==
    open_call(tr, first_expr,
              open_args(c, first_expr, skip_blank_read_if(c, first_expr.pos, {","})))

\* exec_open
exec_open(c, p, tr) == open_rest(c, tr, _parse_temporary_string(c, p))

\* ---- CHAIN
tk_CHAIN == "CHAIN"
tk_MERGE == "MERGE"
tk_DELETE == "DELETE"
tk_W_ALL == "ALL"
tk_O_MINUS == "-"
\* what ends an expression
end_expression == end_statement \cup {",", ")"}
\* program.line_numbers: the lines the program has
line_numbers == {"100", "200"}

\* _parse_optional_jumpnum(ins, missing_value)
_parse_optional_jumpnum(c, p, missing_value) ==
    LET q == skip_blank(c, p)
    IN  IF ins_peek(c, q) \notin T_UINT THEN [pos |-> q, err |-> 0, val |-> missing_value]
        ELSE [pos |-> q + 1, err |-> 0, val |-> ins_peek(c, q)]

\* the end of the DELETE clause: what a comma precedes is ignored
delete_clause_rest(c, p) ==
    LET comma == skip_blank_read_if(c, p, {","})
    IN  IF comma[1] = "," THEN skip_to(c, comma[2], end_statement) ELSE comma[2]

\* _parse_delete_clause with a missing upper line number taken to be the lower one
_parse_delete_clause_open_range(c, p) ==
    LET delete == skip_blank_read_if(c, p, {tk_DELETE})
        from_line == _parse_optional_jumpnum(c, delete[2], "-1")
        minus == skip_blank_read_if(c, from_line.pos, {tk_O_MINUS})
        upper == _parse_optional_jumpnum(c, minus[2], from_line.val)
        to_line == IF minus[1] = tk_O_MINUS THEN upper.val ELSE from_line.val
        q == IF minus[1] = tk_O_MINUS THEN upper.pos ELSE minus[2]
    IN  IF delete[1] = "" THEN [pos |-> delete[2], err |-> 0, val |-> <<"None", "None">>]
        ELSE IF to_line \notin line_numbers THEN [pos |-> q, err |-> IFC, val |-> <<>>]
        ELSE [pos |-> delete_clause_rest(c, q), err |-> 0, val |-> <<from_line.val, to_line>>]

\* _parse_delete_clause: delete_lines as (from_line, to_line), ("None", "None") for None
_parse_delete_clause(c, p) ==
    LET delete == skip_blank_read_if(c, p, {tk_DELETE})
        from_line == _parse_optional_jumpnum(c, delete[2], "-1")
        minus == skip_blank_read_if(c, from_line.pos, {tk_O_MINUS})
        upper == _parse_optional_jumpnum(c, minus[2], "-1")
        to_line == IF minus[1] = tk_O_MINUS THEN upper.val ELSE from_line.val
        q == IF minus[1] = tk_O_MINUS THEN upper.pos ELSE minus[2]
    IN  IF delete[1] = "" THEN [pos |-> delete[2], err |-> 0, val |-> <<"None", "None">>]
        ELSE IF to_line \notin line_numbers THEN [pos |-> q, err |-> IFC, val |-> <<>>]
        ELSE [pos |-> delete_clause_rest(c, q), err |-> 0, val |-> <<from_line.val, to_line>>]

\* exec_chain, after the name: jumpnum, common_all and delete_lines
chain_options(c, p) ==
    LET comma1 == skip_blank_read_if(c, p, {","})
        q == skip_blank(c, comma1[2])
        expr == IF ins_peek(c, q) \in end_expression
                THEN [pos |-> q, err |-> 0, val |-> "None"]
                ELSE parse_to_int(c, q)
        comma2 == skip_blank_read_if(c, expr.pos, {","})
        all == skip_blank_read_if(c, comma2[2], {tk_W_ALL})
        comma3 == skip_blank_read_if(c, all[2], {","})
        delete_lines ==
            IF all[1] = tk_W_ALL /\ comma3[1] = ""
            THEN [pos |-> comma3[2], err |-> 0, val |-> <<"None", "None">>]
            ELSE _parse_delete_clause(c, comma3[2])
        none == <<"None", "False", "None", "None">>
    IN  IF comma1[1] = "" THEN [pos |-> comma1[2], err |-> 0, val |-> none]
        ELSE IF expr.err # 0 THEN [pos |-> expr.pos, err |-> expr.err, val |-> <<>>]
        ELSE IF comma2[1] = ""
        THEN [pos |-> comma2[2], err |-> 0, val |-> <<expr.val, "False", "None", "None">>]
        ELSE IF delete_lines.err # 0
        THEN [pos |-> delete_lines.pos, err |-> delete_lines.err, val |-> <<>>]
        ELSE [pos |-> delete_lines.pos, err |-> 0,
              val |-> <<expr.val, IF all[1] = tk_W_ALL THEN "True" ELSE "False">>
                          \o delete_lines.val]

\* exec_chain
exec_chain(c, p, tr) ==
    LET merge == skip_blank_read_if(c, p, {tk_MERGE})
        name == _parse_temporary_string(c, merge[2])
        options == chain_options(c, name.pos)
        e == require_end(c, options.pos)
    IN  IF name.err # 0 THEN [pos |-> name.pos, trace |-> tr, err |-> name.err]
        ELSE IF options.err # 0 THEN [pos |-> options.pos, trace |-> tr, err |-> options.err]
        ELSE IF e.err # 0 THEN [pos |-> e.pos, trace |-> tr, err |-> e.err]
        ELSE [pos |-> e.pos, err |-> 0,
              trace |-> tr \o <<"chain_", name.val>> \o options.val
                           \o <<IF merge[1] = tk_MERGE THEN "True" ELSE "False">>]

tk_RENUM == "RENUM"

\* _parse_jumpnum_or_dot(ins, allow_empty): a line number, the dot for the line last
\* stored, or None with the token put back
_parse_jumpnum_or_dot(c, p, allow_empty) ==
    LET q == skip_blank(c, p)
        t == ins_peek(c, q)
    IN  IF t \in T_UINT THEN [pos |-> q + 1, err |-> 0, val |-> t]
        ELSE IF t = "." THEN [pos |-> q + 1, err |-> 0, val |-> "last_stored"]
        ELSE IF allow_empty THEN [pos |-> q, err |-> 0, val |-> "None"]
        ELSE [pos |-> Min(q + 1, Len(c)), err |-> STX, val |-> "None"]

\* _parse_renum_args_iter, run to its end by the callback
_parse_renum_args_iter(c, p) ==
    LET q == skip_blank(c, p)
        args == ins_peek(c, q) \notin end_statement
        new == IF args THEN _parse_jumpnum_or_dot(c, q, TRUE)
               ELSE [pos |-> q, err |-> 0, val |-> "None"]
        comma1 == IF args THEN skip_blank_read_if(c, new.pos, {","}) ELSE <<"", new.pos>>
        old == IF comma1[1] = "," THEN _parse_jumpnum_or_dot(c, comma1[2], TRUE)
               ELSE [pos |-> comma1[2], err |-> 0, val |-> "None"]
        comma2 == IF comma1[1] = "," THEN skip_blank_read_if(c, old.pos, {","})
                  ELSE <<"", old.pos>>
        step == IF comma2[1] = "," THEN _parse_optional_jumpnum(c, comma2[2], "None")
                ELSE [pos |-> comma2[2], err |-> 0, val |-> "None"]
        e == require_end(c, step.pos)
    IN  [pos |-> e.pos,
         err |-> IF e.err # 0 THEN e.err ELSE IF step.val = "None" THEN IFC ELSE 0,
         args |-> <<new.val, old.val, step.val>>]

\* exec_args_iter for RENUM: renum_ is invoked on the argument generator
exec_renum(c, p, tr) ==
    LET r == _parse_renum_args_iter(c, p)
    IN  [pos |-> r.pos, err |-> r.err,
         trace |-> Append(tr, "renum_") \o (IF r.err = 0 THEN r.args ELSE <<>>)]

RECURSIVE parse_statement_jumps(_, _, _)

\* exec_if: a line number is an implied jump, then the statement under the reader
\* is parsed
implied_jump(c, p, tr) ==
    LET q == skip_blank(c, p)
        j == _parse_jumpnum(c, q)
    IN  IF ins_peek(c, q) \in T_UINT
        THEN parse_statement_jumps(c, target(c), Append(tr, jump(j.tok)))
        ELSE parse_statement_jumps(c, q, tr)

\* exec_if
exec_if(c, p, tr) ==
    LET val == parse_expression_value(c, p)
        comma == skip_blank_read_if(c, val.pos, {","})
        then == require_read(c, comma[2], {tk_THEN, tk_GOTO})
        else == find_else(c, then.pos, 0)
    IN  IF val.err # 0 THEN [pos |-> val.pos, trace |-> tr, err |-> val.err]
        ELSE IF then.err # 0 THEN [pos |-> then.pos, trace |-> tr, err |-> then.err]
        ELSE IF val.val # 0 THEN implied_jump(c, then.pos, tr)
        ELSE IF else.found THEN implied_jump(c, else.pos, tr)
        ELSE [pos |-> else.pos, trace |-> tr, err |-> 0]

\* parse_statement, with the branching routines of self.statements
parse_statement_jumps(c, p, tr) ==
    LET rd == read_keyword_token(c, skip_blank(c, p))
        r == IF rd[1] = tk_IF THEN exec_if(c, rd[2], tr)
             ELSE IF rd[1] = tk_ON THEN exec_on(c, rd[2], tr)
             ELSE exec_for(c, rd[2], tr)
        e == require_end(c, r.pos)
    IN  IF rd[1] \in {tk_IF, tk_ON, tk_FOR}
        THEN IF r.err # 0 THEN [pos |-> r.pos, trace |-> r.trace, err |-> r.err]
             ELSE [pos |-> e.pos, trace |-> r.trace, err |-> e.err]
        ELSE LET n == parse_statement(c, p, tr)
             IN  [pos |-> n.pos, trace |-> n.trace, err |-> n.err]

\* parse_statement after the routine of the statement has run
statement_end(r, e) ==
    IF r.err # 0 THEN [pos |-> r.pos, trace |-> r.trace, err |-> r.err]
    ELSE [pos |-> e.pos, trace |-> r.trace, err |-> e.err]

\* parse_statement from the routine's return on
after_routine(c, r) == statement_end(r, require_end(c, r.pos))

\* parse_statement, with the routines of self.statements for OPEN, CHAIN and RENUM
parse_statement_files(c, p, tr) ==
    LET rd == read_keyword_token(c, skip_blank(c, p))
    IN  IF rd[1] = tk_OPEN THEN after_routine(c, exec_open(c, rd[2], tr))
        ELSE IF rd[1] = tk_CHAIN THEN after_routine(c, exec_chain(c, rd[2], tr))
        ELSE IF rd[1] = tk_RENUM THEN after_routine(c, exec_renum(c, rd[2], tr))
        ELSE LET n == parse_statement(c, p, tr)
             IN  [pos |-> n.pos, trace |-> n.trace, err |-> n.err]

\* no statement under the reader
StmtIdle ==
    /\ code = <<>>
    /\ pos = 0
    /\ routine = ""
    /\ trace = <<>>
    /\ serr = 0
    /\ parsed = FALSE
    /\ redo_on_break = FALSE
    /\ xpc = "idle"

\* byte strings the model passes as keystring: plain keys, after a leading F1 or not
Keystrings ==
    { (IF f = 1 THEN EaF1 ELSE <<>>) \o [i \in 1..n |-> 97] :
        n \in 0..MaxKeystring, f \in 0..MaxFnKeys }

KbdInitCaps(keystring, caps) ==
    /\ ignore_caps = caps
    /\ events = 0
    /\ buffer = preinsert(<<>>, _split_eascii(keystring, <<>>))
    /\ start = 0
    /\ expansion_vessel = <<>>
    /\ key_replace = default_macros
    /\ audio = 0
    /\ kop = [op |-> "init", key |-> <<>>, flag |-> FALSE]
    /\ kret = <<>>
    /\ ring_pokes = 0
    /\ typed = <<>>
    /\ readlog = <<>>
    /\ mod = 0
    /\ keypad_ascii = <<>>
    /\ last_scancode = 0
    /\ stream_buffer = <<>>
    /\ input_closed = FALSE
    /\ wpc = "idle"
    /\ wko = FALSE
    /\ polls = 0
    /\ wret = <<>>
    /\ macros_set = default_macros
    /\ due = <<>>

KbdInit(keystring) == KbdInitCaps(keystring, FALSE)

notkbdvars == <<memvars, stmtvars, keyvars>>
notmemvars == <<kbdvars, stmtvars, keyvars>>

\* keystrokes handed to append without scancode or modifier, as _key_up does;
\* the empty one is what a key-down of a modifier key alone hands over
TypedKeys == { <<>>, KeyA }

\* ring positions the memory-mapped keyboard region names
RingIndices == 0..ring_length

obsvars == <<kop, kret, typed, readlog>>

\* buf.append(cp_c, None, None, check_full)
DoAppend(cp_c, check_full) ==
    LET r == append(buffer, audio, cp_c, None, None, check_full)
    IN  /\ Len(r[1]) <= MaxBuffer
        /\ r[2] <= MaxTones
        /\ buffer' = r[1]
        /\ audio' = r[2]
        /\ UNCHANGED <<start, expansion_vessel, key_replace, ring_pokes>>

\* buf.getc(expand)
DoGetc(expand) ==
    LET r == getc(buffer, start, expansion_vessel, key_replace, expand)
    IN  /\ buffer' = r[2]
        /\ start' = r[3]
        /\ expansion_vessel' = r[4]
        /\ UNCHANGED <<key_replace, audio, ring_pokes>>

\* buf.ring_write(index, c, scan)
DoRingWrite(index, c, scan) ==
    /\ ring_pokes < MaxRingPokes
    /\ ring_pokes' = ring_pokes + 1
    /\ buffer' = ring_write(buffer, start, index, c, scan)
    /\ UNCHANGED <<start, expansion_vessel, key_replace, audio>>

\* buf.ring_set_boundaries(start, stop)
DoRingSetBoundaries(newstart, newstop) ==
    LET nbuf == ring_set_boundaries(buffer, start, newstart, newstop)
    IN  /\ ring_pokes < MaxRingPokes
        /\ ring_pokes' = ring_pokes + 1
        /\ Len(nbuf) <= MaxBuffer
        /\ buffer' = nbuf
        /\ start' = newstart
        /\ UNCHANGED <<expansion_vessel, key_replace, audio>>

(***************************************************************************)
(* Spec: a Keyboard built with any keystring, then any sequence of append, *)
(* getc, ring_write and ring_set_boundaries.                               *)
(***************************************************************************)
KbdAppend(cp_c, check_full) ==
    DoAppend(cp_c, check_full) /\ UNCHANGED <<obsvars, notkbdvars>>
KbdGetc(expand) == DoGetc(expand) /\ UNCHANGED <<obsvars, notkbdvars>>
KbdRingWrite(index) ==
    DoRingWrite(index, KeyW, ScanW) /\ UNCHANGED <<obsvars, notkbdvars>>
KbdRingSetBoundaries(newstart, newstop) ==
    DoRingSetBoundaries(newstart, newstop) /\ UNCHANGED <<obsvars, notkbdvars>>

Init == (\E ks \in Keystrings : KbdInit(ks)) /\ MemInit /\ StmtIdle

Next ==
    \/ \E k \in TypedKeys, cf \in BOOLEAN : KbdAppend(k, cf)
    \/ \E e \in BOOLEAN : KbdGetc(e)
    \/ \E i \in RingIndices : KbdRingWrite(i)
    \/ \E s \in RingIndices, t \in RingIndices : KbdRingSetBoundaries(s, t)

Spec == Init /\ [][Next]_vars

(***************************************************************************)
(* TypingSpec: a Keyboard built with any keystring, then any sequence of   *)
(* append and getc, with the last call and getc's result on record.        *)
(***************************************************************************)
TypeAppend(cp_c, check_full) ==
    /\ DoAppend(cp_c, check_full)
    /\ kop' = [op |-> "append", key |-> cp_c, flag |-> check_full]
    /\ UNCHANGED <<kret, typed, readlog, notkbdvars>>

TypeGetc(expand) ==
    /\ DoGetc(expand)
    /\ kop' = [op |-> "getc", key |-> <<>>, flag |-> expand]
    /\ kret' = getc(buffer, start, expansion_vessel, key_replace, expand)[1]
    /\ UNCHANGED <<typed, readlog, notkbdvars>>

TypingNext ==
    \/ \E k \in TypedKeys, cf \in BOOLEAN : TypeAppend(k, cf)
    \/ \E e \in BOOLEAN : TypeGetc(e)

TypingSpec == Init /\ [][TypingNext]_vars

(***************************************************************************)
(* AppendReadSpec: from an empty ring, N appends (check_full on) of        *)
(* non-empty keystrokes, then getc(expand=False) until the ring has run    *)
(* empty.                                                                  *)
(***************************************************************************)
RECURSIVE CountOf(_, _)
CountOf(s, x) ==
    IF s = <<>> THEN 0 ELSE (IF Head(s) = x THEN 1 ELSE 0) + CountOf(Tail(s), x)

AppendReadInit == KbdInit(<<>>) /\ MemInit /\ StmtIdle

AppendKey(cp_c) ==
    /\ readlog = <<>>
    /\ Len(typed) < MaxTyped
    /\ cp_c = KeyB => CountOf(typed, KeyB) < MaxMarked
    /\ LET r == append(buffer, audio, cp_c, None, None, TRUE)
       IN  buffer' = r[1] /\ audio' = r[2]
    /\ typed' = Append(typed, cp_c)
    /\ UNCHANGED <<start, expansion_vessel, key_replace, ring_pokes, kop, kret, readlog,
                   notkbdvars>>

ReadKey ==
    /\ Len(readlog) < Min(Len(typed), ring_length) + MaxEmptyReads
    /\ DoGetc(FALSE)
    /\ readlog' = Append(readlog, getc(buffer, start, expansion_vessel, key_replace, FALSE)[1])
    /\ UNCHANGED <<kop, kret, typed, notkbdvars>>

AppendReadNext ==
    \/ \E k \in {KeyA, KeyB} : AppendKey(k)
    \/ ReadKey

AppendReadSpec == AppendReadInit /\ [][AppendReadNext]_vars

(***************************************************************************)
(* Properties of the keyboard buffer                                       *)
(***************************************************************************)

\* C1: in every reachable state the ring holds at most capacity (15) keystrokes:
\* every keystroke actually stored is counted by length <= capacity.
C1_RingWithinCapacity == Len(buffer) <= ring_length /\ length(buffer) = Len(buffer)

\* C2: after N appends of non-empty keystrokes to an empty ring and no reads in
\* between, the getc(expand=False) calls return the first min(N, 15) appended
\* keystrokes in order, and empty from then on.
C2_FirstMinRetrievable ==
    \A i \in 1..Len(readlog) :
        readlog[i] = IF i <= Min(Len(typed), ring_length) THEN typed[i] ELSE <<>>

\* more than 15 keystrokes, a marked one among them, were appended and all reads made
C2_Witness ==
    /\ Len(typed) > ring_length
    /\ CountOf(typed, KeyB) > 0
    /\ Len(readlog) = ring_length + MaxEmptyReads

\* C3 as stated: a check_full append to a ring holding 15 keystrokes leaves ring,
\* start and vessel unchanged and puts exactly one tone on the audio queue; an
\* append to a non-full ring puts no tone.
C3_AnyAppendFullBell ==
    [][kop'.op = "append" =>
        /\ (kop'.flag /\ Len(buffer) = ring_length) =>
              /\ buffer' = buffer /\ start' = start
              /\ expansion_vessel' = expansion_vessel
              /\ audio' = audio + 1
        /\ Len(buffer) < ring_length => audio' = audio]_vars

\* C3 amended: the same for an append of a non-empty keystroke (an empty one is
\* ignored: no tone even when the ring is full).
C3_AppendFullBell ==
    [][kop'.op = "append" =>
        /\ (kop'.flag /\ kop'.key # <<>> /\ Len(buffer) = ring_length) =>
              /\ buffer' = buffer /\ start' = start
              /\ expansion_vessel' = expansion_vessel
              /\ audio' = audio + 1
        /\ (kop'.flag /\ kop'.key = <<>>) => (audio' = audio /\ buffer' = buffer)
        /\ Len(buffer) < ring_length => audio' = audio]_vars

\* a non-empty keystroke was just refused by a ring of 15 whose vessel is being drained
C3_Witness ==
    /\ kop.op = "append" /\ kop.flag /\ kop.key # <<>>
    /\ Len(buffer) = ring_length
    /\ audio = 1
    /\ expansion_vessel # <<>>

\* number of keystrokes the getc calls on record popped from the ring
Popped == Len(readlog) - CountOf(readlog, <<>>)

\* C13: ring indices are taken modulo 16 (capacity + 1): after k keystrokes
\* were popped from a ring whose start index was 0, start = k mod 16, and in
\* every reachable state stop = (start + length) mod 16.
C13_IndicesMod16 ==
    /\ start = Popped % (ring_length + 1)
    /\ stop(buffer, start) = (start + length(buffer)) % (ring_length + 1)

\* C11: getc drains the expansion vessel before the ring: a getc made with a
\* non-empty vessel returns and removes the vessel's first byte and leaves the
\* ring and the start index as they were; the ring loses a keystroke only in
\* a getc made with an empty vessel.
C11_VesselBeforeRing ==
    [][/\ (kop'.op = "getc" /\ expansion_vessel # <<>>) =>
              /\ kret' = Head(expansion_vessel)
              /\ expansion_vessel' = Tail(expansion_vessel)
              /\ buffer' = buffer
              /\ start' = start
       /\ Len(buffer') < Len(buffer) => (kop'.op = "getc" /\ expansion_vessel = <<>>)]_vars

\* the second byte of the F1 macro was just read from the vessel, the ring not empty
C11_Witness ==
    /\ kop.op = "getc"
    /\ kret = <<73>>
    /\ expansion_vessel = <<<<83>>, <<84>>, <<32>>>>
    /\ buffer # <<>>

(***************************************************************************)
(* MacroSpec: a Keyboard built with a keystring of function keys and plain *)
(* keys, then any sequence of set_macro and getc.                          *)
(***************************************************************************)
MaxMacroKeys == 3      \* longest keystring of MacroSpec, in keystrokes
MaxSetMacro == 1       \* most set_macro calls the model follows

EaF2 == <<0, 60>>

\* keystrings of up to n keystrokes, each F1, F2 or the plain key
RECURSIVE MacroKeystrings(_)
MacroKeystrings(n) ==
    IF n = 0 THEN {<<>>}
    ELSE LET shorter == MacroKeystrings(n - 1)
         IN  shorter \cup { k \o t : k \in {EaF1, EaF2, KeyA}, t \in shorter }

\* macros handed to set_macro: empty, plain, holding a NUL, starting with a NUL,
\* and one whose byte is the second byte of the F1 code
MacroTexts == { <<>>, <<120>>, <<120, 0, 121>>, <<0, 120>>, <<59, 122>> }

\* the part of a macro before its first NUL
BeforeNul(m) ==
    LET nuls == { i \in 1..Len(m) : m[i] = 0 }
    IN  IF nuls = {} THEN m
        ELSE SubSeq(m, 1, (CHOOSE i \in nuls : \A j \in nuls : i <= j) - 1)

\* what the next getc is to return by the macro rule, and the bytes due after it
ExpectedGetc(expand) ==
    IF due # <<>> THEN <<<<Head(due)>>, Tail(due)>>
    ELSE IF buffer = <<>> THEN <<<<>>, <<>>>>
    ELSE LET c == buffer[1][1]
             m == IF FUNCTION_KEY(c) = None THEN <<>>
                  ELSE BeforeNul(macros_set[FUNCTION_KEY(c) + 1])
         IN  IF expand /\ m # <<>> THEN <<<<Head(m)>>, Tail(m)>> ELSE <<c, <<>>>>

MacroInit ==
    /\ \E ks \in MacroKeystrings(MaxMacroKeys) : KbdInit(ks)
    /\ MemInit
    /\ StmtIdle

\* set_macro(num, macro)
SetMacro(num, macro) ==
    /\ ring_pokes < MaxSetMacro
    /\ ring_pokes' = ring_pokes + 1
    /\ key_replace' = set_macro(key_replace, num, macro)
    /\ macros_set' = [macros_set EXCEPT ![num] = macro]
    /\ kop' = [op |-> "set_macro", key |-> macro, flag |-> FALSE]
    /\ UNCHANGED <<buffer, start, expansion_vessel, audio, kret, typed, readlog,
                   mod, keypad_ascii, last_scancode, stream_buffer, input_closed,
                   wpc, wko, polls, wret, due, ignore_caps, events, memvars, stmtvars>>

\* buf.getc(expand)
MacroGetc(expand) ==
    /\ DoGetc(expand)
    /\ kop' = [op |-> "getc", key |-> <<>>, flag |-> expand]
    /\ kret' = getc(buffer, start, expansion_vessel, key_replace, expand)[1]
    /\ due' = ExpectedGetc(expand)[2]
    /\ UNCHANGED <<typed, readlog, mod, keypad_ascii, last_scancode, stream_buffer,
                   input_closed, wpc, wko, polls, wret, macros_set, ignore_caps,
                   events, memvars, stmtvars>>

MacroNext ==
    \/ \E n \in 1..2, m \in MacroTexts : SetMacro(n, m)
    \/ \E e \in BOOLEAN : MacroGetc(e)

MacroSpec == MacroInit /\ [][MacroNext]_vars

\* C12: function-key macros: a getc with expansion that pops the code of
\* function key n returns the first byte of the macro last set for n, cut at
\* its first NUL (the default macro if none was set), the getc calls after it
\* return the rest of it in order, never expanded again, and then the ring is
\* read again; an empty macro, and a getc without expansion, return the raw
\* function-key code.
C12_MacroExpansion ==
    [][kop'.op = "getc" => kret' = ExpectedGetc(kop'.flag)[1]]_vars

\* F1 was set to a macro holding a NUL and popped with expansion: the byte before
\* the NUL came back, nothing more is due, and a keystroke waits in the ring
C12_Witness ==
    /\ kop.op = "getc" /\ kop.flag
    /\ macros_set[1] = <<120, 0, 121>>
    /\ kret = <<120>>
    /\ expansion_vessel = <<>>
    /\ Len(buffer) = 2

(***************************************************************************)
(* BoundariesSpec: a Keyboard built with a keystring of two kinds of plain *)
(* keys, then any sequence of getc and ring_set_boundaries.                *)
(***************************************************************************)
MaxBoundaryKeys == 3   \* longest keystring of BoundariesSpec

\* keystrings of up to n keystrokes, each one of the two plain keys
RECURSIVE PlainKeystrings(_)
PlainKeystrings(n) ==
    IF n = 0 THEN {<<>>}
    ELSE LET shorter == PlainKeystrings(n - 1)
         IN  shorter \cup { k \o t : k \in {KeyA, KeyB}, t \in shorter }

BoundariesInit ==
    /\ \E ks \in PlainKeystrings(MaxBoundaryKeys) : KbdInit(ks)
    /\ MemInit
    /\ StmtIdle

\* buf.getc(expand=False)
BoundariesGetc ==
    /\ DoGetc(FALSE)
    /\ kop' = [op |-> "getc", key |-> <<>>, flag |-> FALSE]
    /\ kret' = getc(buffer, start, expansion_vessel, key_replace, FALSE)[1]
    /\ UNCHANGED <<typed, readlog, notkbdvars>>

\* buf.ring_set_boundaries(start, stop)
BoundariesSet(newstart, newstop) ==
    /\ DoRingSetBoundaries(newstart, newstop)
    /\ kop' = [op |-> "ring_set_boundaries", key |-> <<newstart, newstop>>, flag |-> FALSE]
    /\ UNCHANGED <<kret, typed, readlog, notkbdvars>>

BoundariesNext ==
    \/ BoundariesGetc
    \/ \E s \in RingIndices, t \in RingIndices : BoundariesSet(s, t)

BoundariesSpec == BoundariesInit /\ [][BoundariesNext]_vars

\* C14: after ring_set_boundaries(start, stop) the start property is the
\* start given, the stop property is the stop given, and storage position k
\* below length holds the keystroke ring_read returned for ring index
\* start + k before the call.
C14_BoundariesRotate ==
    [][kop'.op = "ring_set_boundaries" =>
        /\ start' = kop'.key[1]
        /\ stop(buffer', start') = kop'.key[2]
        /\ \A k \in 0..(length(buffer') - 1) :
              buffer'[k + 1][1] =
                  ring_read(buffer, start, (kop'.key[1] + k) % (ring_length + 1))[1]]_vars

(***************************************************************************)
(* ModifierSpec: key-down and key-up events from the interface, on a       *)
(* keyboard with an empty ring                                             *)
(***************************************************************************)
MaxModEvents == 2

\* the modifier lists of the key events
ModLists == { <<>>, <<scancode.LSHIFT>>, <<scancode.RSHIFT>>, <<scancode.CTRL>>, <<scancode.ALT>>,
              <<scancode.CTRL, scancode.ALT>> }

\* the keys without a character: modifiers and toggles
SilentKeys == { scancode.LSHIFT, scancode.RSHIFT, scancode.CTRL, scancode.ALT, scancode.CAPSLOCK, scancode.NUMLOCK,
                scancode.SCROLLOCK }

ModifierInit == (\E caps \in BOOLEAN : KbdInitCaps(<<>>, caps)) /\ MemInit /\ StmtIdle

\* check_input on a KEYB_DOWN signal: _key_down(c, scan, mods, check_full=True)
KeyDown(c, scan, mods) ==
    \E r \in {_key_down(KeyState, ignore_caps, c, scan, mods, TRUE)} :
        /\ r.audio <= MaxTones
        /\ events' = events + 1
        /\ mod' = r.mod
        /\ keypad_ascii' = r.keypad_ascii
        /\ last_scancode' = r.last_scancode
        /\ buffer' = r.buffer
        /\ audio' = r.audio
        /\ kop' = [op |-> "key_down", key |-> c, flag |-> TRUE, scan |-> scan, mods |-> mods]
        /\ UNCHANGED <<start, expansion_vessel, key_replace, kret, ring_pokes, typed,
                       readlog, stream_buffer, input_closed, wpc, wko, polls, wret,
                       macros_set, due, ignore_caps, memvars, stmtvars>>

\* check_input on a KEYB_UP signal: _key_up(scan)
KeyUp(scan) ==
    \E r \in {_key_up(KeyState, scan)} :
        /\ r.audio <= MaxTones
        /\ events' = events + 1
        /\ mod' = r.mod
        /\ keypad_ascii' = r.keypad_ascii
        /\ last_scancode' = r.last_scancode
        /\ buffer' = r.buffer
        /\ audio' = r.audio
        /\ kop' = [op |-> "key_up", key |-> <<>>, flag |-> TRUE, scan |-> scan, mods |-> <<>>]
        /\ UNCHANGED <<start, expansion_vessel, key_replace, kret, ring_pokes, typed,
                       readlog, stream_buffer, input_closed, wpc, wko, polls, wret,
                       macros_set, due, ignore_caps, memvars, stmtvars>>

\* the keys of the events: a scancode and the character the interface sends with it
ModKeys == { <<<<>>, scan>> : scan \in SilentKeys \cup {None} }
               \cup { <<KeyA, ScanA>>, <<<<48>>, scancode.KP0>> }

ModKeyDown(key, mods) == events < MaxModEvents /\ KeyDown(key[1], key[2], mods)

ModKeyUp(scan) == events < MaxModEvents /\ KeyUp(scan)

ModifierNext ==
    \/ \E key \in ModKeys, mods \in ModLists : ModKeyDown(key, mods)
    \/ \E key \in ModKeys : ModKeyUp(key[2])

ModifierSpec == ModifierInit /\ [][ModifierNext]_vars

\* a key-down has stored a keystroke in the ring
Stored == Len(buffer') = Len(buffer) + 1

\* C15: the modifier mask stored with keystrokes uses LSHIFT=1, RSHIFT=2, CTRL=4, ALT=8,
\* SCROLLLOCK=0x10, NUMLOCK=0x20, CAPSLOCK=0x40, INSERT=0x80: a key-down whose modifier
\* list is exactly [LSHIFT] sets the low nibble of mod to 1, one whose list is exactly
\* [RSHIFT] sets it to 2
C15_ModifierBits ==
    [][kop'.op = "key_down" =>
          /\ kop'.mods = <<scancode.LSHIFT>> => mod' % 16 = 1
          /\ kop'.mods = <<scancode.RSHIFT>> => mod' % 16 = 2
          /\ kop'.mods = <<scancode.CTRL>> => mod' % 16 = 4
          /\ kop'.mods = <<scancode.ALT>> => mod' % 16 = 8
          /\ kop'.scan = scancode.SCROLLOCK => BitXor(mod, mod') \div 16 = 1
          /\ kop'.scan = scancode.NUMLOCK => BitXor(mod, mod') \div 16 = 2
          /\ kop'.scan = scancode.CAPSLOCK => BitXor(mod, mod') \div 16 = 4
          /\ kop'.scan = scancode.INSERT => BitXor(mod, mod') \div 16 = 8
          /\ Stored => buffer'[Len(buffer')][3] = mod']_vars

\* C15 as the code has it: the same with LSHIFT=2 and RSHIFT=1
C15_ModifierBitsAsBuilt ==
    [][kop'.op = "key_down" =>
          /\ kop'.mods = <<scancode.LSHIFT>> => mod' % 16 = 2
          /\ kop'.mods = <<scancode.RSHIFT>> => mod' % 16 = 1
          /\ kop'.mods = <<scancode.CTRL>> => mod' % 16 = 4
          /\ kop'.mods = <<scancode.ALT>> => mod' % 16 = 8
          /\ kop'.scan = scancode.SCROLLOCK => BitXor(mod, mod') \div 16 = 1
          /\ kop'.scan = scancode.NUMLOCK => BitXor(mod, mod') \div 16 = 2
          /\ kop'.scan = scancode.CAPSLOCK => BitXor(mod, mod') \div 16 = 4
          /\ kop'.scan = scancode.INSERT => BitXor(mod, mod') \div 16 = 8
          /\ Stored => buffer'[Len(buffer')][3] = mod']_vars

C15_Witness ==
    /\ kop.op = "key_down" /\ kop.mods = <<scancode.LSHIFT>> /\ kop.scan = ScanA
    /\ mod = 2 + 64
    /\ buffer = << <<IF ignore_caps THEN KeyA ELSE <<65>>, ScanA, 66>> >>

\* C16: after a key-down with modifier list M and scancode s the four nonsticky
\* bits of mod are exactly the OR of the bits of the modifier scancodes in M,
\* whatever mod was before, and each toggle bit is flipped if and only if s is
\* the scancode of that toggle; a key-up clears at most the nonsticky bit of its
\* own key, sets no bit and changes no toggle bit
C16_ModifierUpdate ==
    [][/\ kop'.op = "key_down" =>
              /\ \A b \in {1, 2, 4, 8} :
                    Bit(mod', b) = 1 <=>
                        \E i \in 1..Len(kop'.mods) : MODIFIER(kop'.mods[i]) = b
              /\ \A t \in {scancode.INSERT, scancode.CAPSLOCK, scancode.NUMLOCK, scancode.SCROLLOCK} :
                    Bit(mod', TOGGLE(t)) # Bit(mod, TOGGLE(t)) <=> kop'.scan = t
       /\ kop'.op = "key_up" =>
              /\ mod' \div 16 = mod \div 16
              /\ BitClear(mod', mod) = 0
              /\ BitClear(mod, mod') \in {0, MODIFIER(kop'.scan)}]_vars

C16_Witness ==
    /\ kop.op = "key_up" /\ kop.scan = scancode.ALT
    /\ mod = 64 + 4
    /\ last_scancode = 128 + scancode.ALT

(***************************************************************************)
(* KeypadSpec: ALT and keypad key events on a keyboard whose ring is       *)
(* empty, one short of full, or full                                       *)
(***************************************************************************)
MaxPadEvents == 4

\* keystrings of n times the letter a
PadKeystrings == { [i \in 1..n |-> 97] : n \in {0, ring_length - 1, ring_length} }

PadModLists == { <<>>, <<scancode.ALT>> }

PadKeys == { <<<<48>>, scancode.KP0>>, <<<<51>>, scancode.KP3>>, <<<<>>, scancode.ALT>> }

KeypadInit == (\E ks \in PadKeystrings : KbdInit(ks)) /\ MemInit /\ StmtIdle

PadKeyDown(key, mods) == events < MaxPadEvents /\ KeyDown(key[1], key[2], mods)

PadKeyUp(scan) == events < MaxPadEvents /\ KeyUp(scan)

KeypadNext ==
    \/ \E key \in PadKeys, mods \in PadModLists : PadKeyDown(key, mods)
    \/ \E key \in PadKeys : PadKeyUp(key[2])

KeypadSpec == KeypadInit /\ [][KeypadNext]_vars

\* the keystroke an ALT key-up makes of the composition register
Composed(register) ==
    LET value == IntOf(register) % 256
    IN  <<IF value = 0 THEN <<0, 0>> ELSE <<value>>, None, None>>

\* a key-down of a keypad digit with ALT in its modifier list
AltDigitDown == kop'.op = "key_down" /\ InList(scancode.ALT, kop'.mods) /\ KEYPAD(kop'.scan) # None

AltUp == kop'.op = "key_up" /\ kop'.scan = scancode.ALT

\* C17: a key-down of a keypad digit with ALT in its modifier list appends nothing
\* to the ring and adds the digit to the composition register; an ALT key-up with
\* a non-empty register appends exactly one keystroke chr(value mod 256), value 0
\* as the two bytes NUL NUL, and empties the register; an ALT key-up with an
\* empty register appends nothing
C17_AltKeypad ==
    [][/\ AltDigitDown =>
              /\ buffer' = buffer
              /\ keypad_ascii' = Append(keypad_ascii, KEYPAD(kop'.scan))
       /\ (AltUp /\ keypad_ascii # <<>>) =>
              /\ buffer' = Append(buffer, Composed(keypad_ascii))
              /\ keypad_ascii' = <<>>
       /\ (AltUp /\ keypad_ascii = <<>>) =>
              /\ buffer' = buffer
              /\ keypad_ascii' = <<>>]_vars

\* C17 with the full ring told apart: the keystroke of an ALT key-up is appended
\* when the ring holds fewer than 15 keystrokes, and otherwise dropped with one tone
C17_AltKeypadRoom ==
    [][/\ AltDigitDown =>
              /\ buffer' = buffer
              /\ audio' = audio
              /\ keypad_ascii' = Append(keypad_ascii, KEYPAD(kop'.scan))
       /\ (AltUp /\ keypad_ascii # <<>>) =>
              /\ IF Len(buffer) < ring_length
                 THEN buffer' = Append(buffer, Composed(keypad_ascii)) /\ audio' = audio
                 ELSE buffer' = buffer /\ audio' = audio + 1
              /\ keypad_ascii' = <<>>
       /\ (AltUp /\ keypad_ascii = <<>>) =>
              /\ buffer' = buffer
              /\ audio' = audio
              /\ keypad_ascii' = <<>>]_vars

C17_Witness ==
    /\ kop.op = "key_up" /\ kop.scan = scancode.ALT
    /\ keypad_ascii = <<>>
    /\ Len(buffer) = ring_length
    /\ buffer[ring_length] = <<<<44>>, None, None>>

(***************************************************************************)
(* WaitSpec: wait_char calls on a keyboard with a redirected stream; the   *)
(* interface's events are handled inside queues.wait(), in the wait_char   *)
(* loop or in the caller between two calls                                 *)
(***************************************************************************)
MaxPolls == 2
MaxStream == 2
MaxWaitKeys == 1

WaitKeystrings == { <<>>, KeyA, EaF1 }

WaitInit == (\E ks \in WaitKeystrings : KbdInit(ks)) /\ MemInit /\ StmtIdle

\* queues.wait() is running: in the loop of wait_char, or in the caller
InQueuesWait == wpc \in {"idle", "wait"}

\* the variables of the wait_char call
waitvars == <<wpc, wko, polls, wret>>

\* the keyboard state that only key events and macros touch
keyeventvars == <<mod, keypad_ascii, last_scancode, macros_set, due, ignore_caps, events>>

\* wait_char(keyboard_only) is called
WaitCall(keyboard_only) ==
    /\ wpc = "idle"
    /\ wpc' = "test"
    /\ wko' = keyboard_only
    /\ polls' = 0
    /\ UNCHANGED <<wret, kbdvars, keyeventvars, stream_buffer, input_closed, memvars, stmtvars>>

\* the loop condition of wait_char is evaluated: poll again, or return buf.peek()
WaitTest ==
    /\ wpc = "test"
    /\ IF wait_more(buffer, expansion_vessel, wko, input_closed)
       THEN wpc' = "wait" /\ UNCHANGED wret
       ELSE wpc' = "done" /\ wret' = peek(buffer)
    /\ UNCHANGED <<wko, polls, kbdvars, keyeventvars, stream_buffer, input_closed,
                   memvars, stmtvars>>

\* queues.wait() in the loop of wait_char returns
WaitWake ==
    /\ wpc = "wait"
    /\ polls < MaxPolls
    /\ wpc' = "test"
    /\ polls' = polls + 1
    /\ UNCHANGED <<wko, wret, kbdvars, keyeventvars, stream_buffer, input_closed,
                   memvars, stmtvars>>

\* the caller of wait_char goes on
WaitReturn ==
    /\ wpc = "done"
    /\ wpc' = "idle"
    /\ UNCHANGED <<wko, polls, wret, kbdvars, keyeventvars, stream_buffer, input_closed,
                   memvars, stmtvars>>

\* check_input on a STREAM_CHAR signal: _stream_chars(us)
StreamChars(us) ==
    /\ InQueuesWait
    /\ Len(_stream_chars(stream_buffer, us)) <= MaxStream
    /\ stream_buffer' = _stream_chars(stream_buffer, us)
    /\ kop' = [op |-> "stream_chars", key |-> us, flag |-> FALSE]
    /\ UNCHANGED <<buffer, start, expansion_vessel, key_replace, audio, kret, ring_pokes,
                   typed, readlog>>
    /\ UNCHANGED <<waitvars, keyeventvars, input_closed, memvars, stmtvars>>

\* check_input on a STREAM_CLOSED signal: _close_input()
CloseInput ==
    /\ InQueuesWait
    /\ ~input_closed
    /\ input_closed' = TRUE
    /\ kop' = [op |-> "close_input", key |-> <<>>, flag |-> FALSE]
    /\ UNCHANGED <<buffer, start, expansion_vessel, key_replace, audio, kret, ring_pokes,
                   typed, readlog>>
    /\ UNCHANGED <<waitvars, keyeventvars, stream_buffer, memvars, stmtvars>>

\* check_input on a KEYB_DOWN signal for the letter a
WaitKeyDown ==
    /\ InQueuesWait
    /\ events < MaxWaitKeys
    /\ KeyDown(KeyA, ScanA, <<>>)

\* the caller reads a byte with buf.getc(expand)
WaitGetc(expand) ==
    /\ wpc = "idle"
    /\ DoGetc(expand)
    /\ kop' = [op |-> "getc", key |-> <<>>, flag |-> expand]
    /\ kret' = getc(buffer, start, expansion_vessel, key_replace, expand)[1]
    /\ UNCHANGED <<typed, readlog, notkbdvars>>

WaitNext ==
    \/ \E keyboard_only \in BOOLEAN : WaitCall(keyboard_only)
    \/ WaitTest
    \/ WaitWake
    \/ WaitReturn
    \/ StreamChars(<<120>>)
    \/ CloseInput
    \/ WaitKeyDown
    \/ \E expand \in BOOLEAN : WaitGetc(expand)

WaitSpec == WaitInit /\ [][WaitNext]_vars

\* C18: wait_char with keyboard_only false returns whenever a byte is available in
\* the ring, the expansion vessel or the stream buffer, or the stream has closed:
\* with a stream byte waiting it does not call queues.wait() again
C18_ReturnsOnAnyByte ==
    [][(/\ wpc = "test"
        /\ ~wko
        /\ \/ buffer # <<>>
           \/ expansion_vessel # <<>>
           \/ stream_buffer # <<>>
           \/ input_closed) => wpc' = "done"]_vars

\* C19: once the stream has closed, wait_char with keyboard_only false returns
\* empty without waiting when the keyboard buffer is empty; with keyboard_only
\* true it never returns while the keyboard buffer is empty
C19_ClosedStream ==
    [][/\ (wpc = "test" /\ ~wko /\ input_closed /\ empty(buffer, expansion_vessel)) =>
              (wpc' = "done" /\ wret' = <<>>)
       /\ (wpc = "test" /\ wko /\ empty(buffer, expansion_vessel)) => wpc' = "wait"
       /\ (wko /\ wpc' = "done") => ~empty(buffer, expansion_vessel)]_vars

C19_Witness ==
    /\ wpc = "done" /\ ~wko /\ polls = 0
    /\ input_closed /\ empty(buffer, expansion_vessel)
    /\ wret = <<>>

\* C37: wait_char consumes nothing (ring, start index and expansion vessel are as
\* they were when it returns) and the byte it returns is the byte the next getc
\* returns, also while the expansion vessel of a macro is being drained
C37_WaitCharPeeksNextGetc ==
    [][(wpc = "test" /\ wpc' = "done") =>
          /\ UNCHANGED <<buffer, start, expansion_vessel>>
          /\ \E expand \in BOOLEAN :
                 wret' = getc(buffer', start', expansion_vessel', key_replace',
                              expand)[1]]_vars

(***************************************************************************)
(* FullcharSpec: get_fullchar on a keyboard with a double-byte codepage,   *)
(* built with a keystring, after at most one set_macro, with a stream      *)
(***************************************************************************)
MaxFullKeys == 2

\* what a keystring and the stream are made of: the ideographic space, a letter
\* that is a trail byte, a digit that is not, and the function key F1
FullUnits == { <<IdeographicSpace>>, KeyA, <<48>>, EaF1 }

RECURSIVE FullKeystrings(_)
FullKeystrings(n) ==
    IF n = 0 THEN { <<>> }
    ELSE FullKeystrings(n - 1)
           \cup { ks \o u : ks \in FullKeystrings(n - 1), u \in FullUnits }

\* macros that begin with a lead byte
FullMacros == { <<129, 48>>, <<129, 64>> }

FullcharInit ==
    /\ \E ks \in FullKeystrings(MaxFullKeys) : KbdInit(str_from_unicode(ks))
    /\ MemInit
    /\ StmtIdle

\* get_fullchar(expand)
GetFullchar(expand) ==
    \E r \in {get_fullchar(buffer, start, expansion_vessel, key_replace,
                            stream_buffer, expand)} :
        /\ wret' = r[1]
        /\ buffer' = r[2]
        /\ start' = r[3]
        /\ expansion_vessel' = r[4]
        /\ stream_buffer' = r[5]
        /\ kop' = [op |-> "get_fullchar", key |-> <<>>, flag |-> expand]
        /\ UNCHANGED <<key_replace, audio, kret, ring_pokes, typed, readlog, wpc, wko,
                       polls, input_closed, keyeventvars, memvars, stmtvars>>

FullcharNext ==
    \/ \E expand \in BOOLEAN : GetFullchar(expand)
    \/ \E macro \in FullMacros : SetMacro(1, macro)
    \/ \E u \in FullUnits : StreamChars(u)

FullcharSpec == FullcharInit /\ [][FullcharNext]_vars

\* the first and the second getc of a get_fullchar made in the current state
FirstGetc == getc(buffer, start, expansion_vessel, key_replace, kop'.flag)
SecondGetc == getc(FirstGetc[2], FirstGetc[3], FirstGetc[4], key_replace, kop'.flag)

\* C20: get_fullchar returns a two-byte character exactly when the byte getc
\* returned is a lead byte and the next byte getc would deliver is a trail byte;
\* the result is then those two bytes and both are consumed; otherwise one byte
\* is returned; the same rule is applied to the stream buffer when the keyboard
\* yields nothing
C20_FullcharLookahead ==
    [][kop'.op = "get_fullchar" =>
          IF FirstGetc[1] # <<>>
          THEN /\ stream_buffer' = stream_buffer
               /\ IF in_lead(FirstGetc[1]) /\ in_trail(SecondGetc[1])
                  THEN /\ wret' = FirstGetc[1] \o SecondGetc[1]
                       /\ <<buffer', start', expansion_vessel'>> =
                              <<SecondGetc[2], SecondGetc[3], SecondGetc[4]>>
                  ELSE /\ wret' = FirstGetc[1]
                       /\ <<buffer', start', expansion_vessel'>> =
                              <<FirstGetc[2], FirstGetc[3], FirstGetc[4]>>
          ELSE /\ UNCHANGED <<buffer, start, expansion_vessel>>
               /\ IF stream_buffer = <<>>
                  THEN wret' = <<>> /\ stream_buffer' = <<>>
                  ELSE IF /\ in_lead(stream_buffer[1])
                          /\ Len(stream_buffer) > 1
                          /\ in_trail(stream_buffer[2])
                       THEN /\ wret' = stream_buffer[1] \o stream_buffer[2]
                            /\ stream_buffer' = Tail(Tail(stream_buffer))
                       ELSE /\ wret' = stream_buffer[1]
                            /\ stream_buffer' = Tail(stream_buffer)]_vars

(***************************************************************************)
(* ScalarSpec: from cleared variables, any sequence of scalar assignments, *)
(* swaps and PEEKs at the bytes VARPTR points to.                          *)
(***************************************************************************)
NameA == <<"A", "%">>
NameB == <<"B", "#">>
NameS == <<"S", "$">>
ScalarNames == {NameA, NameB, NameS}

StrHI == <<72, 73>>
\* values the expression parser hands to set_var
ScalarValues ==
    { <<"%", Encode("%", 1)>>, <<"%", Encode("%", 258)>>, <<"!", Encode("!", 258)>>,
      <<"#", Encode("#", 1)>>, <<"$", <<>>>>, <<"$", StrHI>> }

arrvars == <<arrays, array_memory, array_current, array_base, erases, shadow>>
scalarvars == <<variables, var_memory, var_current, string_current>>

\* set_var(name, value), while the string heap stays within the given number of bytes
SetVarWithin(name, value, heap) ==
    LET r == set_var(name, value)
    IN  /\ r.string_current >= var_mem_start + total_mem - heap
        /\ variables' = r.variables
        /\ var_memory' = r.var_memory
        /\ var_current' = r.var_current
        /\ string_current' = r.string_current
        /\ merr' = r.err
        /\ mret' = None
        /\ mop' = [op |-> "set_var", name |-> name, name2 |-> NoName, type |-> value[1],
                   index |-> <<>>]
        /\ UNCHANGED <<arrvars, notmemvars>>

\* set_var(name, value)
SetVar(name, value) == SetVarWithin(name, value, MaxHeapUse)

\* swap_var(name1, name2)
SwapVar(name1, name2) ==
    LET r == swap_var(name1, name2)
    IN  /\ variables' = r.variables
        /\ merr' = r.err
        /\ mret' = None
        /\ mop' = [op |-> "swap_var", name |-> name1, name2 |-> name2, type |-> "",
                   index |-> <<>>]
        /\ UNCHANGED <<var_memory, var_current, string_current, arrvars, notmemvars>>

\* PEEK(VARPTR(name) + i): get_var_memory(get_var_ptr(name, []) + i), with the dict
\* yielding last as its last key
PeekVar(name, i, last) ==
    /\ name \in DOMAIN var_memory
    /\ i < byte_size(Sigil(name))
    /\ mret' = get_var_memory(get_var_ptr(name) + i, last, NoName)
    /\ merr' = 0
    /\ mop' = [op |-> "peek", name |-> name, name2 |-> NoName, type |-> "", index |-> <<i>>]
    /\ UNCHANGED <<scalarvars, arrvars, notmemvars>>

ScalarInit == KbdInit(<<>>) /\ MemInit /\ StmtIdle

ScalarNext ==
    \/ \E n \in ScalarNames, v \in ScalarValues : SetVar(n, v)
    \/ \E n1 \in ScalarNames, n2 \in ScalarNames : SwapVar(n1, n2)
    \/ \E n \in ScalarNames, i \in 0..7, last \in DOMAIN var_memory : PeekVar(n, i, last)

ScalarSpec == ScalarInit /\ [][ScalarNext]_vars

(***************************************************************************)
(* Properties of the scalars                                               *)
(***************************************************************************)

\* the bytes PEEK is to return at VARPTR(name): the value bytes of a numeric,
\* (length, low byte of str_ptr, high byte of str_ptr) of a string
ValueBytes(name) ==
    IF Sigil(name) = "$"
    THEN <<Len(variables[name][2])>> \o value_to_uint(var_memory[name][3])
    ELSE variables[name][2]

\* C4: VARPTR/PEEK round trip: the byte read at VARPTR(x) + i is byte i of x's
\* own current value, whatever other scalars the state holds.
C4_VarptrPeekRoundTrip ==
    mop.op = "peek" => mret = ValueBytes(mop.name)[mop.index[1] + 1]

\* C6: every stored scalar's value has the type its sigil names, and set_var of
\* a string to a numeric name or of a number to a string name raises
\* Type mismatch and leaves variables, var_memory, var_current and
\* string_current unchanged.
TypesMatchSigils ==
    \A n \in DOMAIN variables :
        /\ variables[n][1] = Sigil(n)
        /\ Sigil(n) # "$" => Len(variables[n][2]) = byte_size(Sigil(n))

\* a set_var of a string to a numeric name or of a number to a string name
Mismatch(op) == op.op = "set_var" /\ ((op.type = "$") # (Sigil(op.name) = "$"))

C6_TypedScalars ==
    /\ []TypesMatchSigils
    /\ [][Mismatch(mop') =>
            /\ merr' = 13
            /\ UNCHANGED <<variables, var_memory, var_current, string_current>>]_vars

\* a mismatching set_var was refused in a state that holds scalars of every kind,
\* one of them converted from another numeric type
C6_Witness ==
    /\ mop.op = "set_var" /\ merr = 13
    /\ DOMAIN variables = ScalarNames
    /\ variables[NameB] = <<"#", Encode("#", 258)>>

(***************************************************************************)
(* RecordSpec: from cleared variables, scalar assignments to names of one  *)
(* and of two letters, and PEEKs at the header of a scalar's record        *)
(***************************************************************************)
NameAB == <<"A", "B", "!">>
RecordNames == {NameA, NameAB, NameS}

\* values the expression parser hands to set_var
RecordValues == { <<"%", Encode("%", 1)>>, <<"$", StrHI>> }

\* PEEK(name_ptr + i) for the record of a scalar: get_var_memory(address), with the
\* dict yielding last as its last key
PeekRecord(name, i, last) ==
    /\ name \in DOMAIN var_memory
    /\ mret' = get_var_memory(var_memory[name][1] + i, last, NoName)
    /\ merr' = 0
    /\ mop' = [op |-> "peek_record", name |-> name, name2 |-> NoName, type |-> "",
               index |-> <<i>>]
    /\ UNCHANGED <<scalarvars, arrvars, notmemvars>>

RecordNext ==
    \/ \E n \in RecordNames, v \in RecordValues : SetVar(n, v)
    \/ \E n \in RecordNames, i \in 0..3, last \in DOMAIN var_memory : PeekRecord(n, i, last)

RecordSpec == ScalarInit /\ [][RecordNext]_vars

\* the letters of a name, without its sigil
NameLetters(name) == SubSeq(name, 1, Len(name) - 1)

\* C21: the record of a scalar starts with name byte 1, name byte 2 (0 if absent),
\* the remaining-length byte and the size-in-bytes byte, in this order: reading at
\* offsets 0, 1, 2, 3 from its first address returns the first name character, the
\* second name character or 0, the remaining length, and the byte size of the type
C21_RecordHeader ==
    mop.op = "peek_record" =>
        mret = CASE mop.index[1] = 0 -> Ord(mop.name[1])
                 [] mop.index[1] = 1 -> IF Len(NameLetters(mop.name)) > 1
                                        THEN Ord(mop.name[2]) ELSE 0
                 [] mop.index[1] = 2 -> Max(0, Len(NameLetters(mop.name)) - 2)
                 [] mop.index[1] = 3 -> byte_size(Sigil(mop.name))

(***************************************************************************)
(* LongNameSpec: scalars whose names have two, three and four letters are  *)
(* assigned and the bytes of their records are read                        *)
(***************************************************************************)
MaxHeader == 5         \* largest offset into a record the model reads

NameABC == <<"A", "B", "C", "%">>
NameABCD == <<"A", "B", "C", "D", "$">>
LongNames == {NameAB, NameABC, NameABCD}

LongNameNext ==
    \/ \E n \in LongNames, v \in RecordValues : SetVar(n, v)
    \/ \E n \in LongNames, i \in 0..MaxHeader, last \in DOMAIN var_memory :
          PeekRecord(n, i, last)

LongNameSpec == ScalarInit /\ [][LongNameNext]_vars

\* C40: for a name of more than three characters with its sigil, the bytes of the
\* header after the remaining-length byte encode the third and later letters of the
\* base name, one byte each as 0xC1 + (letter - 'A'), as many as the remaining-length
\* byte says, and the sigil is never encoded as a name byte
C40_NameTailBytes ==
    (mop.op = "peek_record" /\ Len(mop.name) > 3) =>
        /\ mop.index[1] = 3 => mret = Len(NameLetters(mop.name)) - 2
        /\ mop.index[1] \in 4..(Len(NameLetters(mop.name)) + 1) =>
              mret = 193 + Ord(NameLetters(mop.name)[mop.index[1] - 1]) - 65

(***************************************************************************)
(* StringSpec: from cleared variables, assignments to two string scalars   *)
(* and an integer, of values of 0, 128 and 256 bytes                       *)
(***************************************************************************)
MaxStringHeap == 259

NameT == <<"T", "$">>
StringNames == {NameS, NameT, NameA}

\* values the expression parser hands to set_var: strings of 0, 128 and 256 bytes, a number
StringValues == { <<"$", <<>>>>, <<"$", Repeat(72, 128)>>, <<"$", Repeat(65, 256)>>,
                  <<"%", Encode("%", 1)>> }

\* set_var(name, value)
AssignVar(name, value) == SetVarWithin(name, value, MaxStringHeap)

StringNext == \E n \in StringNames, v \in StringValues : AssignVar(n, v)

StringSpec == ScalarInit /\ [][StringNext]_vars

\* a set_var to a string scalar has gone through
StringAssigned == mop'.op = "set_var" /\ merr' = 0 /\ Sigil(mop'.name) = "$"

\* C22: every assignment to a string scalar, first or repeated, lowers
\* string_current by exactly the length of the stored value, which is at most 255
\* bytes, and sets the str_ptr of that variable to the new string_current + 1; the
\* str_ptr of every other variable is unchanged, and string_current never increases
C22_StringAllocation ==
    [][/\ StringAssigned =>
              /\ Len(variables'[mop'.name][2]) <= 255
              /\ string_current' = string_current - Len(variables'[mop'.name][2])
              /\ var_memory'[mop'.name][3] = string_current' + 1
              /\ \A n \in DOMAIN var_memory \ {mop'.name} :
                    var_memory'[n][3] = var_memory[n][3]
       /\ string_current' <= string_current]_vars

\* a string of 256 bytes was assigned to a string scalar that had been assigned the
\* empty string before, next to another string scalar
C22_Witness ==
    /\ mop.op = "set_var" /\ mop.name = NameS /\ merr = 0
    /\ Len(variables[NameS][2]) = 255
    /\ NameT \in DOMAIN var_memory
    /\ var_memory[NameS][1] < var_memory[NameT][1]
    /\ var_memory[NameS][3] = string_current + 1
    /\ string_current = var_mem_start + total_mem - 255

(***************************************************************************)
(* ExhaustSpec: from cleared variables, assignments of an integer and of a *)
(* string of 255 bytes, until the string heap has been used up             *)
(***************************************************************************)
MaxOverrun == 255      \* most bytes the string heap is followed below var_mem_start

ExhaustNames == {NameA, NameS}
ExhaustValues == { <<"%", Encode("%", 1)>>, <<"$", Repeat(65, 255)>> }

ExhaustNext ==
    \E n \in ExhaustNames, v \in ExhaustValues : SetVarWithin(n, v, total_mem + MaxOverrun)

ExhaustSpec == ScalarInit /\ [][ExhaustNext]_vars

\* C35: the string heap never runs into the scalar and array region: in every
\* reachable state var_current + array_current <= string_current, an assignment that
\* would break this failing with Out of memory (7) instead of being carried out
C35_HeapAboveVariables == var_current + array_current <= string_current

(***************************************************************************)
(* ReadSpec: from cleared variables, scalar assignments, reads and swaps   *)
(***************************************************************************)
NameI == <<"I", "%">>
ReadNames == {NameA, NameI, NameS}
ReadValues == { <<"%", Encode("%", 1)>>, <<"$", StrHI>> }

\* get_var(name)
GetVar(name) ==
    /\ mret' = get_var(name)
    /\ merr' = 0
    /\ mop' = [op |-> "get_var", name |-> name, name2 |-> NoName, type |-> "",
               index |-> <<>>]
    /\ UNCHANGED <<scalarvars, arrvars, notmemvars>>

ReadNext ==
    \/ \E n \in ReadNames, v \in ReadValues : SetVar(n, v)
    \/ \E n \in ReadNames : GetVar(n)
    \/ \E n1 \in ReadNames, n2 \in ReadNames : SwapVar(n1, n2)

ReadSpec == ScalarInit /\ [][ReadNext]_vars

\* C27: a scalar is created by its first read: get_var on a name never assigned
\* returns the zero or empty value of its type and afterwards the variable is in the
\* variable store, so that a swap_var naming it next with an existing variable of
\* the same type does not fail
C27_ReadCreates ==
    [][/\ (mop'.op = "get_var" /\ mop'.name \notin DOMAIN variables) =>
              /\ mret' = null(Sigil(mop'.name))
              /\ mop'.name \in DOMAIN variables'
       /\ (/\ mop.op = "get_var" /\ mop'.op = "swap_var"
           /\ mop'.name = mop.name
           /\ mop'.name2 \in DOMAIN variables
           /\ Sigil(mop'.name2) = Sigil(mop'.name)) =>
              merr' = 0
      ]_vars

(***************************************************************************)
(* ArraySpec: from cleared variables, any sequence of OPTION BASE, DIM,    *)
(* array reads and writes, and ERASE.  The state keeps what the calls leave *)
(* in arrays, array_memory, array_current and array_base; the error a call *)
(* raises is the err field of its operator.                                *)
(***************************************************************************)
NameX == <<"X", "%">>
NameY == <<"Y", "$">>
ArrayNames == {NameX, NameY}

\* ---- bounds of the array model
MaxDim == 2            \* largest maximum index DIM is given
MaxErases == 1         \* most erase_array calls the model follows
MaxArrays == 1         \* most array names a behaviour of the model uses

\* index tuples and dimension lists of one or two numbers
Tuples(S) == { <<a>> : a \in S } \cup { <<a, b>> : a \in S, b \in S }
DimLists == Tuples(-1..MaxDim)
IndexTuples == Tuples((-1..MaxDim) \cup {10, 11})

\* values the expression parser hands to set_array
ArrayValues == { <<"%", Encode("%", 258)>>, <<"!", Encode("!", 1)>>, <<"$", StrHI>> }

ArrayState == [err |-> 0, arrays |-> arrays, array_memory |-> array_memory,
               array_current |-> array_current]

\* base_array(base)
BaseArray(base) ==
    LET r == base_array(base)
    IN  /\ array_base' = r.array_base
        /\ UNCHANGED <<mop, merr, mret, arrays, array_memory, array_current, erases, shadow,
                       scalarvars, notmemvars>>

\* dim_array(name, dimensions)
DimArray(name, dimensions) ==
    LET r == dim_array(ArrayState, name, dimensions, array_base)
    IN  /\ Cardinality(DOMAIN array_memory \cup {name}) <= MaxArrays
        /\ arrays' = r.arrays
        /\ array_memory' = r.array_memory
        /\ array_current' = r.array_current
        /\ UNCHANGED <<mop, merr, mret, array_base, erases, shadow, scalarvars, notmemvars>>

\* set_array(name, index, value)
SetArray(name, index, value) ==
    LET r == set_array(ArrayState, name, index, value, array_base)
        stored == pass_type_keep(Sigil(name), value)
        sh == IF r.err = 0 THEN Put(shadow, <<name, index>>, stored[2]) ELSE shadow
    IN  /\ Cardinality(DOMAIN array_memory \cup {name}) <= MaxArrays
        /\ Cardinality(DOMAIN sh) <= MaxWritten
        /\ arrays' = r.arrays
        /\ array_memory' = r.array_memory
        /\ array_current' = r.array_current
        /\ shadow' = sh
        /\ UNCHANGED <<mop, merr, mret, array_base, erases, scalarvars, notmemvars>>

\* get_array(name, index)
GetArray(name, index) ==
    LET r == get_array(ArrayState, name, index, array_base)
    IN  /\ Cardinality(DOMAIN array_memory \cup {name}) <= MaxArrays
        /\ arrays' = r.st.arrays
        /\ array_memory' = r.st.array_memory
        /\ array_current' = r.st.array_current
        /\ UNCHANGED <<mop, merr, mret, array_base, erases, shadow, scalarvars, notmemvars>>

\* erase_array(name)
EraseArray(name) ==
    LET r == erase_array(name)
    IN  /\ erases < MaxErases
        /\ erases' = erases + 1
        /\ arrays' = r.arrays
        /\ shadow' = [k \in { k \in DOMAIN shadow : k[1] # name \/ r.err # 0 } |-> shadow[k]]
        /\ UNCHANGED <<mop, merr, mret, array_memory, array_current, array_base,
                       scalarvars, notmemvars>>

ArrayInit == KbdInit(<<>>) /\ MemInit /\ StmtIdle

ArrayNext ==
    \/ \E b \in 0..2 : BaseArray(b)
    \/ \E n \in ArrayNames, d \in DimLists : DimArray(n, d)
    \/ \E n \in ArrayNames, i \in IndexTuples, v \in ArrayValues : SetArray(n, i, v)
    \/ \E n \in ArrayNames, i \in IndexTuples : GetArray(n, i)
    \/ \E n \in ArrayNames : EraseArray(n)

ArraySpec == ArrayInit /\ [][ArrayNext]_vars

(***************************************************************************)
(* MemorySpec: from cleared variables, scalar assignments, DIM, ERASE and  *)
(* FRE, each call recorded with the error it raises                        *)
(***************************************************************************)
MemoryNames == {NameA, NameS}
MemoryValues == { <<"%", Encode("%", 1)>>, <<"$", StrHI>> }

\* dim_array(name, dimensions)
Dim(name, dimensions) ==
    \E r \in {dim_array(ArrayState, name, dimensions, array_base)} :
        /\ Cardinality(DOMAIN array_memory \cup {name}) <= MaxArrays
        /\ arrays' = r.arrays
        /\ array_memory' = r.array_memory
        /\ array_current' = r.array_current
        /\ merr' = r.err
        /\ mret' = None
        /\ mop' = [op |-> "dim_array", name |-> name, name2 |-> NoName, type |-> "",
                   index |-> dimensions]
        /\ UNCHANGED <<array_base, erases, shadow, scalarvars, notmemvars>>

\* erase_array(name)
Erase(name) ==
    \E r \in {erase_array(name)} :
        /\ erases < MaxErases
        /\ erases' = erases + 1
        /\ arrays' = r.arrays
        /\ merr' = r.err
        /\ mret' = None
        /\ mop' = [op |-> "erase_array", name |-> name, name2 |-> NoName, type |-> "",
                   index |-> <<>>]
        /\ UNCHANGED <<array_memory, array_current, array_base, shadow, scalarvars,
                       notmemvars>>

\* FRE: variables_memory_size()
Fre ==
    /\ mret' = variables_memory_size(variables, arrays, array_base)
    /\ merr' = 0
    /\ mop' = [op |-> "fre", name |-> NoName, name2 |-> NoName, type |-> "", index |-> <<>>]
    /\ UNCHANGED <<scalarvars, arrvars, notmemvars>>

MemoryNext ==
    \/ \E n \in MemoryNames, v \in MemoryValues : SetVar(n, v)
    \/ \E n \in ArrayNames, d \in DimLists : Dim(n, d)
    \/ \E n \in ArrayNames : Erase(n)
    \/ Fre

MemorySpec == ArrayInit /\ [][MemoryNext]_vars

\* the bytes the records and payloads of the arrays named take
RECURSIVE ArrayBytes(_)
ArrayBytes(names) ==
    IF names = {} THEN 0
    ELSE LET name == CHOOSE n \in names : TRUE
         IN  1 + Max(3, Len(name)) + 3 + 2 * Len(arrays[name][1])
               + array_size_bytes(arrays, name, array_base)
               + ArrayBytes(names \ {name})

\* C36: the arrays that have a record in the simulated memory are exactly the arrays
\* that exist, and array_current is the sum of the record and payload sizes of the
\* arrays that exist; ERASE of an array releases its record
C36_ArrayRecordsExist ==
    /\ DOMAIN array_memory = DOMAIN arrays
    /\ array_current = ArrayBytes(DOMAIN arrays)

\* C23: the memory use reported for FRE reflects the drift of the simulated memory:
\* after any sequence of scalar assignments, string re-assignments, DIM and ERASE
\* it is (var_current - var_mem_start) + array_current
\* + (var_mem_start + total_mem - string_current)
C23_FreReflectsDrift ==
    mop.op = "fre" =>
        mret = (var_current - var_mem_start) + array_current
                   + (var_mem_start + total_mem - string_current)

(***************************************************************************)
(* OptionSpec: from cleared variables, OPTION BASE with any number, DIM,   *)
(* reads that auto-dimension, and ERASE, each call recorded with its error *)
(***************************************************************************)
Bases == -1..2
OptionIndexes == { <<1>>, <<1, 1>> }

\* base_array(base)
Base(base) ==
    \E r \in {base_array(base)} :
        /\ array_base' = r.array_base
        /\ merr' = r.err
        /\ mret' = None
        /\ mop' = [op |-> "base_array", name |-> NoName, name2 |-> NoName, type |-> "",
                   index |-> <<base>>]
        /\ UNCHANGED <<arrays, array_memory, array_current, erases, shadow, scalarvars,
                       notmemvars>>

\* get_array(name, index)
ReadElement(name, index) ==
    \E r \in {get_array(ArrayState, name, index, array_base)} :
        /\ Cardinality(DOMAIN array_memory \cup {name}) <= MaxArrays
        /\ arrays' = r.st.arrays
        /\ array_memory' = r.st.array_memory
        /\ array_current' = r.st.array_current
        /\ merr' = r.st.err
        /\ mret' = r.value
        /\ mop' = [op |-> "get_array", name |-> name, name2 |-> NoName, type |-> "",
                   index |-> index]
        /\ UNCHANGED <<array_base, erases, shadow, scalarvars, notmemvars>>

OptionNext ==
    \/ \E b \in Bases : Base(b)
    \/ \E n \in ArrayNames, d \in DimLists : Dim(n, d)
    \/ \E n \in ArrayNames, i \in OptionIndexes : ReadElement(n, i)
    \/ \E n \in ArrayNames : Erase(n)

OptionSpec == ArrayInit /\ [][OptionNext]_vars

\* C24: with no array defined base_array(0) after base_array(0) raises nothing and
\* leaves the state as the first call left it; whenever an array exists, declared
\* or auto-dimensioned, base_array(0) and base_array(1) raise Duplicate Definition
\* (10) and leave array_base unchanged
C24_OptionBase ==
    [][mop'.op = "base_array" /\ mop'.index[1] \in {0, 1} =>
          /\ DOMAIN arrays = {} => merr' = 0 /\ array_base' = mop'.index[1]
          /\ (DOMAIN arrays = {} /\ mop = mop' /\ merr = 0) =>
                 UNCHANGED <<arrvars, scalarvars>>
          /\ DOMAIN arrays # {} => merr' = 10 /\ array_base' = array_base
      ]_vars

\* base_array(0) has raised Duplicate Definition with base 1 in force and an
\* auto-dimensioned array in the store
C24_Witness ==
    /\ mop.op = "base_array" /\ mop.index = <<0>> /\ merr = 10
    /\ array_base = 1
    /\ \E n \in DOMAIN arrays : arrays[n][1] = <<10, 10>>

UnchangedArrays == UNCHANGED <<arrays, array_memory, array_current, array_base>>

\* a dimension list whose first entry below the base or below zero is negative
NegativeFirst(dimensions, base) ==
    \E i \in 1..Len(dimensions) :
        /\ dimensions[i] < 0
        /\ \A j \in 1..(i - 1) : dimensions[j] >= base

\* C25 as stated: an array base other than 0 or 1 raises Illegal function call (5),
\* and so does dimensioning with a negative maximum index; array_base and the arrays
\* are unchanged
C25_IllegalFunctionCall ==
    [][/\ (mop'.op = "base_array" /\ mop'.index[1] \notin {0, 1}) =>
              merr' = 5 /\ UnchangedArrays
       /\ (mop'.op = "dim_array" /\ \E i \in 1..Len(mop'.index) : mop'.index[i] < 0) =>
              merr' = 5 /\ UnchangedArrays
      ]_vars

\* C25 as built: an array base other than 0 or 1 raises Syntax error (2); dimensioning
\* a name that is not dimensioned yet raises Illegal function call (5) when the first
\* maximum index that is negative or below the base is negative; array_base and the
\* arrays are unchanged in both cases
C25_BadBaseNegativeDim ==
    [][/\ (mop'.op = "base_array" /\ mop'.index[1] \notin {0, 1}) =>
              merr' = 2 /\ UnchangedArrays
       /\ (/\ mop'.op = "dim_array"
           /\ mop'.name \notin DOMAIN arrays
           /\ NegativeFirst(mop'.index, array_base)) =>
              merr' = 5 /\ UnchangedArrays
      ]_vars

\* dim_array has raised Illegal function call for a list whose second maximum index
\* is negative, with base 1 in force
C25_Witness ==
    /\ mop.op = "dim_array" /\ mop.index = <<1, -1>> /\ merr = 5
    /\ array_base = 1 /\ DOMAIN arrays = {}

(***************************************************************************)
(* SubscriptSpec: from cleared variables, OPTION BASE, DIM and reads and   *)
(* writes of array elements, each call recorded with the error it raises   *)
(***************************************************************************)
SubscriptIndexes == Tuples({-1, 0, 1, MaxDim + 1})
SubscriptValues == { <<"%", Encode("%", 258)>> }

\* set_array(name, index, value)
WriteElement(name, index, value) ==
    \E r \in {set_array(ArrayState, name, index, value, array_base)} :
        /\ Cardinality(DOMAIN array_memory \cup {name}) <= MaxArrays
        /\ r.err = 0 => \A k \in DOMAIN shadow : k = <<name, index>>
        /\ arrays' = r.arrays
        /\ array_memory' = r.array_memory
        /\ array_current' = r.array_current
        /\ shadow' = IF r.err = 0
                     THEN Put(shadow, <<name, index>>, pass_type_keep(Sigil(name), value)[2])
                     ELSE shadow
        /\ merr' = r.err
        /\ mret' = None
        /\ mop' = [op |-> "set_array", name |-> name, name2 |-> NoName, type |-> value[1],
                   index |-> index]
        /\ UNCHANGED <<array_base, erases, scalarvars, notmemvars>>

SubscriptNext ==
    \/ \E b \in 0..1 : Base(b)
    \/ \E n \in ArrayNames, d \in DimLists : Dim(n, d)
    \/ \E n \in ArrayNames, i \in SubscriptIndexes : ReadElement(n, i)
    \/ \E n \in ArrayNames, i \in SubscriptIndexes, v \in SubscriptValues :
           WriteElement(n, i, v)

SubscriptSpec == ArrayInit /\ [][SubscriptNext]_vars

\* the call recorded by the step is get_array or set_array on an array that is
\* dimensioned before the call
ElementAccess ==
    /\ mop'.op \in {"get_array", "set_array"}
    /\ mop'.name \in DOMAIN arrays

\* the first index of the call that is negative, below the base or above its
\* maximum index, 0 if there is none
FirstOutside(index, dimensions, base) ==
    LET outside == { i \in 1..Len(index) :
                        index[i] < base \/ index[i] < 0 \/ index[i] > dimensions[i] }
    IN  IF outside = {} THEN 0 ELSE CHOOSE i \in outside : \A j \in outside : i <= j

\* C26 as stated: get_array and set_array on a dimensioned array raise Subscript Out
\* of Range (9) for every index tuple with an index outside [base, dimensions[i]],
\* negative indices included, and for every tuple with another number of indices
\* than the array has dimensions; the array contents are unchanged
C26_SubscriptOutOfRange ==
    [][ElementAccess =>
          LET dimensions == arrays[mop'.name][1]
              index == mop'.index
          IN  (\/ Len(index) # Len(dimensions)
               \/ FirstOutside(index, dimensions, array_base) # 0) =>
                  merr' = 9 /\ arrays' = arrays
      ]_vars

\* C26 as built: on a dimensioned array get_array and set_array raise Subscript Out of
\* Range (9) for every tuple with another number of indices than the array has
\* dimensions, and for every tuple of the right length whose first index outside
\* [base, dimensions[i]] is not negative; they raise Illegal function call (5) when
\* that index is negative; the array contents are unchanged
C26_SubscriptOrIllegal ==
    [][ElementAccess =>
          LET dimensions == arrays[mop'.name][1]
              index == mop'.index
              k == FirstOutside(index, dimensions, array_base)
          IN  /\ Len(index) # Len(dimensions) => merr' = 9 /\ arrays' = arrays
              /\ (Len(index) = Len(dimensions) /\ k # 0) =>
                     /\ merr' = (IF index[k] < 0 THEN 5 ELSE 9)
                     /\ arrays' = arrays
      ]_vars

\* set_array has raised Subscript Out of Range for the index above the maximum
\* index of a dimensioned array that holds a written element
C26_Witness ==
    /\ mop.op = "set_array" /\ merr = 9
    /\ mop.name \in DOMAIN arrays
    /\ arrays[mop.name][1] = <<1>> /\ mop.index = <<MaxDim + 1>>
    /\ \E k \in DOMAIN shadow : k[1] = mop.name

\* C34: the first get or set on an undeclared array with k indices creates a
\* k-dimensional array with maximum index 10 on every axis, and the array stays
\* dimensioned also when that access raises an error for its index, so that a DIM
\* of the name that follows raises Duplicate Definition (10)
C34_AutoDimensionStays ==
    [][/\ (mop'.op \in {"get_array", "set_array"} /\ mop'.name \notin DOMAIN arrays) =>
              /\ mop'.name \in DOMAIN arrays'
              /\ arrays'[mop'.name][1] = Repeat(10, Len(mop'.index))
       /\ (/\ mop.op \in {"get_array", "set_array"}
           /\ mop'.op = "dim_array" /\ mop'.name = mop.name) =>
              merr' = 10 /\ arrays' = arrays
      ]_vars

\* a read of element 0 of an undeclared array under base 1 has raised Subscript out
\* of range and left the array dimensioned with maximum index 10
C34_Witness ==
    /\ mop.op = "get_array" /\ mop.index = <<0>> /\ merr = 9
    /\ array_base = 1
    /\ arrays[mop.name][1] = <<10>>

(***************************************************************************)
(* Array properties                                                        *)
(***************************************************************************)
\* the index tuples check_dim_array accepts for an array of these dimensions
ValidIndices(dimensions, base) ==
    { i \in [DOMAIN dimensions -> 0..Max(10, MaxDim)] :
        \A k \in DOMAIN dimensions : i[k] >= base /\ i[k] <= dimensions[k] }

\* the value last stored at an index of an array, the type's null if none was
LastStored(name, i) ==
    IF <<name, i>> \in DOMAIN shadow THEN shadow[<<name, i>>] ELSE null(Sigil(name))[2]

\* C5: for every dimensioned array and every valid index tuple, under either
\* OPTION BASE, get_array raises nothing and returns the value set_array most
\* recently stored at that index tuple, or the zero / empty string of the
\* array's type if none was stored there (so a store at one index tuple never
\* shows at another); index_array maps the valid index tuples one-to-one to
\* positions below array_len.
C5_ArrayReadBack ==
    \A n \in DOMAIN arrays :
        LET dimensions == arrays[n][1]
            valid == ValidIndices(dimensions, array_base)
            positions == { index_array(i, dimensions, array_base) : i \in valid }
        IN  /\ \A i \in valid :
                  LET r == get_array(ArrayState, n, i, array_base)
                  IN  r.st.err = 0 /\ r.value = <<Sigil(n), LastStored(n, i)>>
            /\ Cardinality(positions) = Cardinality(valid)
            /\ positions \subseteq 0..(array_len(dimensions, array_base) - 1)

\* a value was stored in a two-dimensional array under OPTION BASE 1 and is
\* what get_array reads back at that index tuple
C5_Witness ==
    \E k \in DOMAIN shadow :
        /\ array_base = 1
        /\ k[1] \in DOMAIN arrays
        /\ Len(k[2]) = 2
        /\ k[2][1] # k[2][2]
        /\ shadow[k] # null(Sigil(k[1]))[2]
        /\ get_array(ArrayState, k[1], k[2], array_base).value = <<Sigil(k[1]), shadow[k]>>

(***************************************************************************)
(* StatementSpec: the reader is at the start of any statement of up to     *)
(* MaxTail tokens after its first, and parse_statement is called on it.    *)
(***************************************************************************)
MaxTail == 3           \* most tokens after the first token of the statement

\* what follows the first token: blanks, a name, =, a literal, :, end of line, garbage
TailTokens == {" ", "A", tk_O_EQ, "1", ":", "EOL", ")"}
FirstTokens == statements \cup TailTokens

RECURSIVE SeqsUpTo(_, _)
SeqsUpTo(S, n) ==
    IF n = 0 THEN {<<>>}
    ELSE LET shorter == SeqsUpTo(S, n - 1)
         IN  shorter \cup { Append(t, x) : t \in shorter, x \in S }

\* statements: blank or not, then a first token or none, then the tail
Streams ==
    { lead \o first \o tail :
        lead \in {<<>>, <<" ">>},
        first \in {<<>>} \cup { <<t>> : t \in FirstTokens },
        tail \in SeqsUpTo(TailTokens, MaxTail) }

StatementInit ==
    /\ code \in Streams
    /\ pos = 0
    /\ routine = ""
    /\ trace = <<>>
    /\ serr = 0
    /\ parsed = FALSE
    /\ redo_on_break = FALSE
    /\ xpc = "idle"
    /\ KbdInit(<<>>)
    /\ MemInit

\* parse_statement(ins); an error raised leaves the trace with "RunError" last
ParseStatement ==
    LET r == parse_statement(code, pos, trace)
    IN  /\ ~parsed
        /\ parsed' = TRUE
        /\ pos' = r.pos
        /\ routine' = r.routine
        /\ trace' = IF r.err # 0 THEN Append(r.trace, "RunError") ELSE r.trace
        /\ serr' = r.err
        /\ UNCHANGED <<code, redo_on_break, xpc, kbdvars, keyvars, memvars>>

StatementNext == ParseStatement

StatementSpec == StatementInit /\ [][StatementNext]_vars

(***************************************************************************)
(* Statement dispatcher properties                                         *)
(***************************************************************************)
\* the first token of the statement, after blanks ("" at the end of the stream)
FirstToken == ins_peek(code, skip_blank(code, 0))
\* the token after the first one and the blanks that follow it
TokenAfterFirst == ins_peek(code, skip_blank(code, skip_blank(code, 0) + 1))

\* C7: once parse_statement has run: a first token that is a statement opcode
\* had its routine invoked; else a letter had the LET routine invoked, on the
\* reader backed up to the letter; else a statement terminator (end of line,
\* colon, end of the stream) had no routine invoked and no error raised; any
\* other first byte raised Syntax error with no routine invoked.
C7_Dispatch ==
    parsed =>
        IF FirstToken \in statements THEN routine = FirstToken
        ELSE IF FirstToken \in ascii_letters
        THEN /\ routine = tk_LET
             /\ trace # <<>> /\ trace[1] = callback(tk_LET)
             /\ pos > skip_blank(code, 0)
        ELSE IF FirstToken \in end_statement
        THEN routine = "" /\ serr = 0 /\ trace = <<>>
        ELSE routine = "" /\ serr = STX /\ trace = <<"RunError">>

\* C8: once parse_statement has executed a statement (a routine was invoked)
\* and raised nothing, the reader is at end of statement, end of line or
\* colon: anything else after the statement raised Syntax error.
C8_EndRequired ==
    (parsed /\ routine # "" /\ serr = 0) => ins_peek(code, pos) \in end_statement

\* C9: END, STOP, SYSTEM, NEW or WEND followed by anything but a statement
\* terminator raises Syntax error and the statement's callback is not invoked.
C9_AfterEndNoCallback ==
    (parsed /\ FirstToken \in after_end_tokens /\ TokenAfterFirst \notin end_statement)
        => serr = STX /\ trace = <<"RunError">> /\ routine = FirstToken

\* END, STOP, SYSTEM, NEW or WEND was parsed with garbage after it
C9_Witness ==
    /\ parsed
    /\ FirstToken = tk_SYSTEM
    /\ TokenAfterFirst = ")"
    /\ serr = STX

\* C10: TRON, TROFF, CONT or RESET followed by anything but a statement
\* terminator has its callback invoked exactly once, and after that Syntax
\* error is raised.
C10_ImmediateThenError ==
    (parsed /\ FirstToken \in immediate_tokens /\ TokenAfterFirst \notin end_statement)
        => serr = STX /\ trace = <<callback(FirstToken), "RunError">>

\* TRON was parsed with garbage after it
C10_Witness ==
    /\ parsed
    /\ FirstToken = tk_TRON
    /\ TokenAfterFirst = "A"
    /\ trace = <<"tron_", "RunError">>

(***************************************************************************)
(* IfSpec: the reader is at the start of an IF statement whose line goes   *)
(* on with up to MaxClauses clauses, and parse_statement is called on it.  *)
(***************************************************************************)
MaxClauses == 4        \* most clauses after THEN on the line

Clauses ==
    { <<tk_IF, "0", tk_THEN>>, <<tk_IF, "1", tk_THEN>>, <<":", tk_ELSE>>, <<":", " ", tk_ELSE>>,
      <<":">>, <<tk_ELSE>>, <<tk_TRON>>, <<tk_TROFF>>, <<"100">> }

RECURSIVE ClauseLines(_)
ClauseLines(n) ==
    IF n = 0 THEN {<<>>}
    ELSE LET shorter == ClauseLines(n - 1)
         IN  shorter \cup { t \o x : t \in shorter, x \in Clauses }

IfHeads == { <<tk_IF, v>> \o sep \o <<th>> :
               v \in {"0", "1"}, sep \in {<<>>, <<",">>}, th \in {tk_THEN, tk_GOTO} }

IfInit ==
    /\ code \in { h \o t \o <<"EOL">> :
                     h \in IfHeads \cup {<<tk_IF, "0">>}, t \in ClauseLines(MaxClauses) }
    /\ pos = 0
    /\ routine = ""
    /\ trace = <<>>
    /\ serr = 0
    /\ parsed = FALSE
    /\ redo_on_break = FALSE
    /\ xpc = "idle"
    /\ KbdInit(<<>>)
    /\ MemInit

\* parse_statement(ins) on a line with branching statements
ParseJumps ==
    \E r \in {parse_statement_jumps(code, pos, trace)} :
        /\ ~parsed
        /\ parsed' = TRUE
        /\ pos' = r.pos
        /\ routine' = ins_peek(code, skip_blank(code, pos))
        /\ trace' = IF r.err # 0 THEN Append(r.trace, "RunError") ELSE r.trace
        /\ serr' = r.err
        /\ UNCHANGED <<code, redo_on_break, xpc, kbdvars, keyvars, memvars>>

IfNext == ParseJumps

IfSpec == IfInit /\ [][IfNext]_vars

\* the scan of the rest of the line for the ELSE that belongs to the IF, token by
\* token with a depth counter: the position after that ELSE, None if there is none
RECURSIVE MatchingElse(_, _, _)
MatchingElse(c, p, depth) ==
    LET tok == ins_peek(c, p)
        q == skip_blank(c, p + 1)
    IN  IF tok \in {"EOL", ""} THEN None
        ELSE IF tok = tk_IF THEN MatchingElse(c, p + 1, depth + 1)
        ELSE IF tok = ":" /\ ins_peek(c, q) = tk_ELSE
        THEN IF depth > 0 THEN MatchingElse(c, q + 1, depth - 1) ELSE q + 1
        ELSE MatchingElse(c, p + 1, depth)

\* the line starts with IF, a zero condition and THEN or GOTO
ZeroIf ==
    /\ code[1] = tk_IF /\ code[2] = "0"
    /\ code[3] \in {tk_THEN, tk_GOTO} \/ (code[3] = "," /\ code[4] \in {tk_THEN, tk_GOTO})

AfterThen == IF code[3] = "," THEN 4 ELSE 3

\* C28: IF with a zero condition goes on with the statement after the first :ELSE
\* met at depth 0, the depth rising on each IF token and falling on each :ELSE at a
\* depth above 0; with no such :ELSE before the end of the line no statement of the
\* rest of the line is executed and no jump is made.  IF 0 THEN s1 ELSE s2 executes
\* s2 and not s1.
C28_ZeroIfFindsElse ==
    (parsed /\ ZeroIf) =>
        LET else == MatchingElse(code, AfterThen, 0)
            q == skip_blank(code, else)
            r == IF ins_peek(code, q) \in T_UINT
                 THEN parse_statement_jumps(code, target(code),
                                            <<jump(ins_peek(code, q))>>)
                 ELSE parse_statement_jumps(code, q, <<>>)
        IN  /\ else = None => trace = <<>> /\ serr = 0 /\ ins_peek(code, pos) = "EOL"
            /\ else # None =>
                   /\ serr = r.err
                   /\ trace = IF r.err # 0 THEN Append(r.trace, "RunError") ELSE r.trace
            /\ code = <<tk_IF, "0", tk_THEN, tk_TRON, ":", tk_ELSE, tk_TROFF, "EOL">> =>
                   trace = <<"troff_">>

\* a zero IF with a nested IF has skipped the nested IF's :ELSE and gone on after
\* the second :ELSE
C28_Witness ==
    /\ parsed
    /\ code = <<tk_IF, "0", tk_THEN, tk_IF, "0", tk_THEN, ":", tk_ELSE, ":", " ", tk_ELSE,
                tk_TRON, "EOL">>
    /\ trace = <<"tron_">> /\ serr = 0


(***************************************************************************)
(* OnSpec: the reader is at the start of ON n GOTO or ON n GOSUB with a    *)
(* list of up to MaxList tokens, and parse_statement is called on it.      *)
(***************************************************************************)
MaxList == 5           \* most tokens of the list of line numbers

ListTokens == T_UINT \cup {",", ")", " "}
OnHeads == { <<tk_ON, n>> \o command :
               n \in DOMAIN literal, command \in {<<tk_GOTO>>, <<tk_GOSUB>>, <<>>} }

OnInit ==
    /\ code \in { h \o t \o <<"EOL">> : h \in OnHeads, t \in SeqsUpTo(ListTokens, MaxList) }
    /\ pos = 0
    /\ routine = ""
    /\ trace = <<>>
    /\ serr = 0
    /\ parsed = FALSE
    /\ redo_on_break = FALSE
    /\ xpc = "idle"
    /\ KbdInit(<<>>)
    /\ MemInit

OnNext == ParseJumps

OnSpec == OnInit /\ [][OnNext]_vars

\* the entries of a list of tokens, which commas separate
RECURSIVE Entries(_)
Entries(list) ==
    IF \A i \in 1..Len(list) : list[i] # "," THEN <<list>>
    ELSE LET k == CHOOSE i \in 1..Len(list) :
                      list[i] = "," /\ \A j \in 1..(i - 1) : list[j] # ","
         IN  <<SubSeq(list, 1, k - 1)>> \o Entries(SubSeq(list, k + 1, Len(list)))

NotBlank(t) == t # " "
IsJump(x) == x \in { jump(t) : t \in T_UINT } \cup { jump_sub(t) : t \in T_UINT }
WellFormed(entry) == Len(entry) = 1 /\ entry[1] \in T_UINT

\* the jumps the statement has made
Jumps == SelectSeq(trace, IsJump)

\* C29: ON n GOTO/GOSUB: n outside [0,255] raises error 5 with no jump; for n in
\* 1..254 exactly one jump is made, to the n-th line number of the list, if the list
\* has at least n entries, and none if it is shorter; for n = 0 or 255 no jump is
\* made; a malformed entry among the first n-1 raises an error and no jump is made.
\* ON 2 GOTO 100,200,300 jumps to 200.
C29_OnJump ==
    (parsed /\ code[1] = tk_ON) =>
        LET n == literal[code[2]]
            entries == Entries(SelectSeq(SubSeq(code, 4, Len(code) - 1), NotBlank))
            goto == code[3] = tk_GOTO
        IN  /\ n \notin 0..255 => serr = IFC /\ Jumps = <<>>
            /\ n \in {0, 255} => Jumps = <<>>
            /\ (n \in 1..254 /\ code[3] \in {tk_GOTO, tk_GOSUB}) =>
                   /\ (Len(entries) >= n /\ \A i \in 1..n : WellFormed(entries[i])) =>
                          /\ serr = 0
                          /\ Jumps = <<IF goto THEN jump(entries[n][1])
                                        ELSE jump_sub(entries[n][1])>>
                   /\ Len(entries) < n => Jumps = <<>>
                   /\ (\E i \in 1..Min(n - 1, Len(entries)) : ~WellFormed(entries[i])) =>
                          serr # 0 /\ Jumps = <<>>
            /\ code = <<tk_ON, "2", tk_GOTO, "100", ",", "200", ",", "300", "EOL">> =>
                   trace = <<"jump 200">>

\* ON 2 GOTO 100,200,300 has jumped to 200
C29_Witness ==
    /\ parsed
    /\ code = <<tk_ON, "2", tk_GOTO, "100", ",", "200", ",", "300", "EOL">>
    /\ trace = <<"jump 200">> /\ serr = 0


(***************************************************************************)
(* ForSpec: the reader is at the start of a FOR statement, whole or with   *)
(* parts missing, and parse_statement is called on it.                     *)
(***************************************************************************)
MaxBlanks == 1         \* most blanks between two tokens of the statement

Blanks == { [i \in 1..n |-> " "] : n \in 0..MaxBlanks }
Opt(tok) == {<<>>, <<tok>>}
Expressions == {<<>>, <<"1">>, <<string_literal>>}

ForStreams ==
    { <<tk_FOR>> \o b1 \o name \o eq \o start_ \o b2 \o to \o stop_ \o step \o rest \o <<"EOL">> :
        b1 \in Blanks, name \in { <<n>> : n \in DOMAIN sigil_of } \cup {<<>>},
        eq \in Opt(tk_O_EQ), start_ \in Expressions, b2 \in Blanks, to \in Opt(tk_TO),
        stop_ \in Expressions, step \in {<<>>, <<tk_STEP>>, <<tk_STEP, "1">>},
        rest \in Opt(")") }

ForInit ==
    /\ code \in ForStreams
    /\ pos = 0
    /\ routine = ""
    /\ trace = <<>>
    /\ serr = 0
    /\ parsed = FALSE
    /\ redo_on_break = FALSE
    /\ xpc = "idle"
    /\ KbdInit(<<>>)
    /\ MemInit

ForNext == ParseJumps

ForSpec == ForInit /\ [][ForNext]_vars

\* the tokens of the statement without the blanks
ForTokens == SelectSeq(code, NotBlank)

\* the statement is FOR, a string or double variable, = and a start expression
RejectedFor ==
    /\ Len(ForTokens) >= 5
    /\ ForTokens[1] = tk_FOR
    /\ ForTokens[2] \in {"A$", "A#"}
    /\ ForTokens[3] = tk_O_EQ
    /\ ForTokens[4] \in {"1", string_literal}

\* the position of the reader counted in tokens that are no blanks
TokensRead == Len(SelectSeq(SubSeq(code, 1, pos), NotBlank))

\* C30: FOR with a string or double loop variable never reaches for_, and Type
\* mismatch is raised only after TO has been consumed: when TO is missing after the
\* start expression the error raised is Syntax error, not Type mismatch
C30_ForRejectedAfterTo ==
    (parsed /\ RejectedFor) =>
        /\ \A i \in 1..Len(trace) : trace[i] # "for_"
        /\ serr = TYPE_MISMATCH => ForTokens[5] = tk_TO /\ TokensRead >= 5
        /\ ForTokens[5] # tk_TO => serr = STX


(***************************************************************************)
(* OpenSpec: the reader is at the start of an OPEN statement in the old or *)
(* the new form, whole or with parts missing or wrong.                     *)
\* parse_statement(ins) on an OPEN, CHAIN or RENUM statement
ParseFiles ==
    \E r \in {parse_statement_files(code, pos, trace)} :
        /\ ~parsed
        /\ parsed' = TRUE
        /\ pos' = r.pos
        /\ routine' = ins_peek(code, skip_blank(code, pos))
        /\ trace' = IF r.err # 0 THEN Append(r.trace, "RunError") ELSE r.trace
        /\ serr' = r.err
        /\ UNCHANGED <<code, redo_on_break, xpc, kbdvars, keyvars, memvars>>

(***************************************************************************)
FileNumbers == {<<>>, <<"1">>, <<"256">>}

OldOpenTails ==
    { <<",">> \o hash \o number \o comma \o name \o reclen :
        hash \in Opt("#"), number \in FileNumbers, comma \in Opt(","),
        name \in Opt(string_literal), reclen \in {<<>>, <<",">>, <<",", "1">>} }

NewOpenTails ==
    { for \o access \o lock \o as \o hash \o number \o reclen :
        for \in {<<>>, <<tk_FOR>>, <<tk_FOR, tk_INPUT>>, <<tk_FOR, tk_W_OUTPUT>>},
        access \in {<<>>, <<tk_W_ACCESS>>, <<tk_W_ACCESS, tk_READ>>},
        lock \in {<<>>, <<tk_LOCK, tk_READ, tk_WRITE>>, <<tk_W_SHARED>>},
        as \in Opt(tk_W_AS), hash \in Opt("#"), number \in FileNumbers,
        reclen \in {<<>>, <<tk_LEN, "1">>, <<tk_LEN, tk_O_EQ, "1">>} }

OpenStreams ==
    { <<tk_OPEN>> \o first \o b \o rest \o <<"EOL">> :
        first \in { <<t>> : t \in DOMAIN first_upper } \cup {<<>>, <<"1">>},
        b \in Blanks, rest \in OldOpenTails \cup NewOpenTails }

OpenInit ==
    /\ code \in OpenStreams
    /\ pos = 0
    /\ routine = ""
    /\ trace = <<>>
    /\ serr = 0
    /\ parsed = FALSE
    /\ redo_on_break = FALSE
    /\ xpc = "idle"
    /\ KbdInit(<<>>)
    /\ MemInit

OpenNext == ParseFiles

OpenSpec == OpenInit /\ [][OpenNext]_vars

\* C31: OPEN chooses its grammar only by whether a comma follows the first
\* expression: with a comma the old form is parsed, and a first expression that does
\* not start with I, O, A or R in either case raises Bad file mode (54) before the file
\* number is parsed and before open_ is called; without a comma the new form is
\* parsed and the first expression is the file name
C31_OpenGrammar ==
    (parsed /\ ForTokens[1] = tk_OPEN /\ ForTokens[2] \in DOMAIN first_upper) =>
        LET first_expr == ForTokens[2]
            mode == first_upper[first_expr]
        IN  IF ForTokens[3] = ","
            THEN /\ mode \notin {"I", "O", "A", "R"} =>
                        serr = BAD_FILE_MODE /\ trace = <<"RunError">> /\ TokensRead = 3
                 /\ mode \in {"I", "O", "A", "R"} =>
                        /\ serr # BAD_FILE_MODE
                        /\ serr = 0 =>
                               Len(trace) = 5 /\ trace[1] = "open_" /\ trace[4] = mode
            ELSE /\ serr # BAD_FILE_MODE
                 /\ serr = 0 =>
                        Len(trace) = 7 /\ trace[1] = "open_" /\ trace[3] = first_expr

\* OPEN "X", #256 has raised Bad file mode with the reader just after the comma
C31_Witness ==
    /\ parsed
    /\ code = <<tk_OPEN, "\"X\"", ",", "#", "256", "EOL">>
    /\ serr = BAD_FILE_MODE /\ pos = 3


(***************************************************************************)
(* ChainSpec: the reader is at the start of a CHAIN statement, with or     *)
(* without its options and the DELETE clause.                              *)
(***************************************************************************)
ChainLines == {<<>>, <<"100">>, <<"300">>}

DeleteClauses ==
    {<<>>} \cup { <<tk_DELETE>> \o b \o from \o minus \o to \o rest :
                    b \in Blanks, from \in ChainLines, minus \in Opt(tk_O_MINUS),
                    to \in ChainLines, rest \in {<<>>, <<",", ")">>, <<")">>} }

ChainStreams ==
    { <<tk_CHAIN>> \o merge \o name \o options \o <<"EOL">> :
        merge \in Opt(tk_MERGE), name \in {<<string_literal>>, <<"1">>},
        options \in {<<>>} \cup
            { <<",">> \o expr \o tail : expr \in {<<>>, <<"1">>, <<string_literal>>},
                tail \in {<<>>} \cup
                    { <<",">> \o all \o delete :
                        all \in {<<>>, <<tk_W_ALL>>, <<tk_W_ALL, ",">>},
                        delete \in DeleteClauses } } }

ChainInit ==
    /\ code \in ChainStreams
    /\ pos = 0
    /\ routine = ""
    /\ trace = <<>>
    /\ serr = 0
    /\ parsed = FALSE
    /\ redo_on_break = FALSE
    /\ xpc = "idle"
    /\ KbdInit(<<>>)
    /\ MemInit

ChainNext == ParseFiles

ChainSpec == ChainInit /\ [][ChainNext]_vars

\* the place of the DELETE token among the tokens that are no blanks, 0 if none
DeleteAt ==
    LET at == { i \in 1..Len(ForTokens) : ForTokens[i] = tk_DELETE }
    IN  IF at = {} THEN 0 ELSE CHOOSE i \in at : TRUE

\* the token k places after DELETE
AfterDelete(k) == ForTokens[DeleteAt + k]

\* the statement is CHAIN with a name, an empty or numeric line expression and a
\* DELETE clause where the grammar has one
ChainDelete ==
    /\ ForTokens[1] = tk_CHAIN
    /\ string_literal \in {ForTokens[2], ForTokens[3]}
    /\ \A i \in 1..Len(ForTokens) : i < DeleteAt => ForTokens[i] # string_literal \/ i <= 3
    /\ DeleteAt > 3
    /\ ForTokens[DeleteAt - 1] = ","
    /\ ForTokens[DeleteAt - 2] # string_literal

\* the clause is DELETE with no line number, or with a minus and nothing after it
MissingUpper ==
    \/ AfterDelete(1) \notin T_UINT \cup {tk_O_MINUS}
    \/ AfterDelete(1) = tk_O_MINUS /\ AfterDelete(2) \notin T_UINT
    \/ AfterDelete(1) \in T_UINT /\ AfterDelete(2) = tk_O_MINUS /\ AfterDelete(3) \notin T_UINT

\* C32: CHAIN ... DELETE with a missing upper line number, 'DELETE from-' with nothing
\* after the minus or DELETE with no line number at all, raises Illegal function call
\* (5) and chain_ is never invoked
C32_ChainDeleteMissing ==
    (parsed /\ ChainDelete /\ MissingUpper) =>
        serr = IFC /\ trace = <<"RunError">>

\* CHAIN "X",,DELETE 100- has raised Illegal function call behind the minus
C32_Witness ==
    /\ parsed
    /\ code = <<tk_CHAIN, string_literal, ",", ",", tk_DELETE, "100", tk_O_MINUS, "EOL">>
    /\ serr = IFC /\ trace = <<"RunError">> /\ pos = 7


(***************************************************************************)
(* RedoSpec: calls of parse_expression and _parse_variable followed step   *)
(* by step, with the session flag redo_on_break they set and clear         *)
(***************************************************************************)
MaxRedoLen == 3
MaxRaises == 2          \* most errors the model follows

RedoTokens == {" ", "1", "A", "(", ")", "+", "EOL"}

RedoInit ==
    /\ code \in SeqsUpTo(RedoTokens, MaxRedoLen)
    /\ pos = 0
    /\ routine = ""
    /\ trace = <<>>
    /\ serr = 0
    /\ parsed = FALSE
    /\ redo_on_break = FALSE
    /\ xpc = "idle"
    /\ KbdInit(<<>>)
    /\ MemInit

\* expression_parser.parse_indices: no index list, or one index in parentheses
parse_indices(c, p) ==
    LET q == skip_blank(c, p)
        e == parse_expression_value(c, q + 1)
        r == skip_blank(c, e.pos)
    IN  IF ins_peek(c, q) # "(" THEN [pos |-> q, err |-> 0]
        ELSE IF e.err # 0 THEN [pos |-> e.pos, err |-> e.err]
        ELSE IF ins_peek(c, r) = ")" THEN [pos |-> r + 1, err |-> 0]
        ELSE [pos |-> r, err |-> STX]

\* an error leaves the call: the statements after the raise are not run
Raise(err) ==
    /\ serr' = err
    /\ trace' = Append(trace, "RunError")
    /\ xpc' = "raised"

\* parse_expression(ins, allow_empty) up to the call of the expression parser
ExpressionCall(allow_empty) ==
    /\ xpc = "idle"
    /\ IF allow_empty /\ ins_peek(code, skip_blank(code, pos)) \in end_expression
       THEN /\ pos' = skip_blank(code, pos)
            /\ xpc' = "returned"
            /\ UNCHANGED redo_on_break
       ELSE /\ pos' = IF allow_empty THEN skip_blank(code, pos) ELSE pos
            /\ redo_on_break' = TRUE
            /\ xpc' = "parse"
    /\ UNCHANGED <<code, routine, trace, serr, parsed, kbdvars, keyvars, memvars>>

\* self.expression_parser.parse(ins) returns a value or raises
ExpressionParse ==
    /\ xpc = "parse"
    /\ \E r \in {parse_expression_value(code, pos)} :
          /\ pos' = r.pos
          /\ IF r.err # 0 THEN Raise(r.err)
             ELSE xpc' = "parsed" /\ UNCHANGED <<serr, trace>>
    /\ UNCHANGED <<code, routine, parsed, redo_on_break, kbdvars, keyvars, memvars>>

\* parse_expression after the expression parser has returned
ExpressionReturn ==
    /\ xpc = "parsed"
    /\ redo_on_break' = FALSE
    /\ xpc' = "returned"
    /\ UNCHANGED <<code, pos, routine, trace, serr, parsed, kbdvars, keyvars, memvars>>

\* _parse_variable(ins) up to the call of parse_indices
VariableCall ==
    /\ xpc = "idle"
    /\ \E r \in {read_name(code, pos)} :
          /\ pos' = r[2]
          /\ IF r[1] = "" THEN Raise(STX) /\ UNCHANGED redo_on_break
             ELSE /\ redo_on_break' = TRUE
                  /\ xpc' = "indices"
                  /\ UNCHANGED <<serr, trace>>
    /\ UNCHANGED <<code, routine, parsed, kbdvars, keyvars, memvars>>

\* self.expression_parser.parse_indices(ins) returns the indices or raises
IndicesParse ==
    /\ xpc = "indices"
    /\ \E r \in {parse_indices(code, pos)} :
          /\ pos' = r.pos
          /\ IF r.err # 0 THEN Raise(r.err)
             ELSE xpc' = "indexed" /\ UNCHANGED <<serr, trace>>
    /\ UNCHANGED <<code, routine, parsed, redo_on_break, kbdvars, keyvars, memvars>>

\* _parse_variable after parse_indices has returned
VariableReturn ==
    /\ xpc = "indexed"
    /\ redo_on_break' = FALSE
    /\ xpc' = "returned"
    /\ UNCHANGED <<code, pos, routine, trace, serr, parsed, kbdvars, keyvars, memvars>>

\* the caller goes on after the call returned, or the error was handled and the
\* next statement starts
Resume ==
    /\ xpc \in {"returned", "raised"}
    /\ Len(trace) < MaxRaises
    /\ xpc' = "idle"
    /\ serr' = 0
    /\ UNCHANGED <<code, pos, routine, trace, parsed, redo_on_break, kbdvars, keyvars,
                   memvars>>

RedoNext ==
    \/ \E allow_empty \in BOOLEAN : ExpressionCall(allow_empty)
    \/ ExpressionParse
    \/ ExpressionReturn
    \/ VariableCall
    \/ IndicesParse
    \/ VariableReturn
    \/ Resume

RedoSpec == RedoInit /\ [][RedoNext]_vars

\* C38: redo_on_break is true only while an expression or an index list is being
\* evaluated: it is false whenever parse_expression or _parse_variable has finished,
\* with a value or with an error, and so between statements
C38_RedoOnlyWhileEvaluating ==
    xpc \in {"idle", "returned", "raised"} => ~redo_on_break

(***************************************************************************)
(* RenumSpec: RENUM with its arguments given or left out                   *)
(***************************************************************************)
RenumLines == {<<>>, <<"100">>, <<".">>}

RenumStreams ==
    { <<tk_RENUM>> \o b1 \o new \o rest \o end :
        b1 \in Blanks, new \in RenumLines, end \in {<<"EOL">>, <<":", "EOL">>},
        rest \in {<<>>} \cup
            { <<",">> \o b2 \o old \o more :
                b2 \in Blanks, old \in RenumLines,
                more \in {<<>>} \cup { <<",">> \o step : step \in {<<>>, <<"300">>, <<".">>} } } }

RenumInit ==
    /\ code \in RenumStreams
    /\ pos = 0
    /\ routine = ""
    /\ trace = <<>>
    /\ serr = 0
    /\ parsed = FALSE
    /\ redo_on_break = FALSE
    /\ xpc = "idle"
    /\ KbdInit(<<>>)
    /\ MemInit

RenumNext == ParseFiles

RenumSpec == RenumInit /\ [][RenumNext]_vars

\* where the commas of the statement are, blanks left out
Commas == { i \in 1..Len(ForTokens) : ForTokens[i] = "," }
FirstComma == CHOOSE i \in Commas : \A j \in Commas : i <= j
LastComma == CHOOSE i \in Commas : \A j \in Commas : j <= i

\* the argument a token stands for
LineArgument(t) == IF t \in T_UINT THEN t ELSE IF t = "." THEN "last_stored" ELSE "None"

\* C39: RENUM accepts omitted arguments: with no arguments, with a new number only,
\* or with new and old numbers and no step, renum_ gets None for every omitted
\* argument and no error is raised; Illegal function call is raised only when a
\* second comma announces a step that is not given
C39_RenumOmitted ==
    (parsed /\ ForTokens[1] = tk_RENUM) =>
        /\ Cardinality(Commas) < 2 =>
              /\ serr = 0
              /\ trace = <<"renum_", LineArgument(ForTokens[2]),
                           IF Commas = {} THEN "None"
                           ELSE LineArgument(ForTokens[FirstComma + 1]),
                           "None">>
        /\ serr = IFC =>
              /\ Cardinality(Commas) = 2
              /\ ForTokens[LastComma + 1] \notin T_UINT

=============================================================================
